---- MODULE Spec2Model ----
(***************************************************************************)
(* Model of the restic WFX plugin's virtual-namespace resolver and caches: *)
(* the snapshot-list cache (FetchSnapshots), the in-memory directory cache *)
(* (g_LsCache), the persistent SQLite cache (ls_cache.c) and the bulk      *)
(* ingestion of one recursive listing (BulkCacheSubdirectories).           *)
(*                                                                         *)
(* C strings are sequences of character codes, so that strcmp, strrchr and *)
(* the path conversions are computed as the code computes them.  DirEntry  *)
(* arrays are sequences.  SQLite tables are sets of rows with the primary  *)
(* keys of CreateSchema.                                                   *)
(***************************************************************************)
EXTENDS Integers, Sequences, FiniteSets, TLC

VARIABLES
    now,            \* GetTickCount64(), ms
    g_SnapCache,    \* wfx_interface.c g_SnapCache[0..g_SnapCacheCount-1]
    g_LsCache,      \* wfx_interface.c g_LsCache[0..g_LsCacheCount-1]
    g_Initialized,  \* ls_cache.c g_Initialized
    cached_dirs,    \* per repo database: table cached_dirs (sentinel rows)
    dir_entries,    \* per repo database: table dir_entries (child rows)
    loadedSnaps,    \* (repo, shortId) pairs marked fully loaded
    hasPassword,    \* RepoConfig.hasPassword per repo
    resticSnaps,    \* backend: the snapshots each repository holds
    resticTree,     \* backend: the recursive listing of each snapshot
    last,           \* observer: the last call made by the host and its result
    shadow,         \* observer: per key, the entries of the last two stores
    lastFetch,      \* observer: per repo, the last call of FetchSnapshots
    g_BatchRestore, \* wfx_interface.c g_BatchRestore
    tempDirs,       \* file system: the directories under %TEMP%\restic_wfx
    threads,        \* per host thread: the FsGetFile call it is in, and its locals
    localFile,      \* file system: per host thread, the destination file of its call
    resticProc,     \* backend: per host thread, the restic process its call started
    g_Dbs           \* ls_cache.c g_Dbs[0..g_DbCount-1]: the repositories with a connection

vars == <<now, g_SnapCache, g_LsCache, g_Initialized, cached_dirs, dir_entries,
          loadedSnaps, hasPassword, resticSnaps, resticTree, last, shadow, lastFetch,
          g_BatchRestore, tempDirs, threads, localFile, resticProc, g_Dbs>>

\* The variables of the batch restore, which the listing handlers never touch.
batch == <<g_BatchRestore, tempDirs>>

\* The variables of a file request in progress, which only the stepwise
\* specifications of FsGetFile touch, and the connections of ls_cache.c, which
\* only the specification of GetConnection touches (elsewhere every open
\* succeeds).
conc == <<threads, localFile, resticProc, g_Dbs>>

-----------------------------------------------------------------------------
(* Characters and C strings *)

CH_SLASH == 47
CH_BACKSLASH == 92
CH_COLON == 58
CH_UNDERSCORE == 95
CH_LPAREN == 40
CH_RPAREN == 41
CH_SPACE == 32
CH_a == 97
CH_b == 98
CH_1 == 49
CH_2 == 50
CH_UPPER_A == 65
CH_UPPER_Z == 90
CH_LOWER_z == 122

NULL == "NULL"
NONNULL == "NONNULL"

\* strcmp: -1, 0 or 1 by the first differing character; a proper prefix is smaller.
RECURSIVE strcmp(_, _)
strcmp(a, b) ==
    IF a = <<>> /\ b = <<>> THEN 0
    ELSE IF a = <<>> THEN -1
    ELSE IF b = <<>> THEN 1
    ELSE IF Head(a) < Head(b) THEN -1
    ELSE IF Head(a) > Head(b) THEN 1
    ELSE strcmp(Tail(a), Tail(b))

\* strrchr: index of the last occurrence of c in s, 0 when there is none.
strrchr(s, c) ==
    LET hits == {i \in 1..Len(s) : s[i] = c}
    IN  IF hits = {} THEN 0 ELSE CHOOSE i \in hits : \A j \in hits : j <= i

\* strchr: index of the first occurrence of c in s, 0 when there is none.
strchr(s, c) ==
    LET hits == {i \in 1..Len(s) : s[i] = c}
    IN  IF hits = {} THEN 0 ELSE CHOOSE i \in hits : \A j \in hits : i <= j

SeqToSet(s) == {s[i] : i \in 1..Len(s)}

-----------------------------------------------------------------------------
(* The repositories, snapshot ids and names the model draws from *)

Repos == {"r1", "r2"}
ShortIds == {<<CH_1>>}
Names == {<<CH_a>>, <<CH_b>>}

\* FILETIME: two DWORDs.
FileTime(low, high) == [dwLowDateTime |-> low, dwHighDateTime |-> high]

\* wfx_interface.h DirEntry.  Sizes and times are DWORD pairs; every value the
\* model draws is far below 2^32.
DirEntry(name, isDir, sizeLow, sizeHigh, ft) ==
    [name |-> name, isDirectory |-> isDir,
     fileSizeLow |-> sizeLow, fileSizeHigh |-> sizeHigh,
     lastWriteTime |-> ft]

-----------------------------------------------------------------------------
(* ls_cache.c: the persistent cache *)

\* GetConnection: the connection of a repository's database, or NULL.  The
\* database file is taken to open (sqlite3_open and CreateSchema succeed).
GetConnection(repoName) == IF repoName \in Repos THEN NONNULL ELSE NULL

\* INSERT OR REPLACE INTO dir_entries: the row replaces the one with the same
\* primary key (short_id, path, name).
InsertEntry(rows, shortId, path, e) ==
    {r \in rows : ~(r.short_id = shortId /\ r.path = path /\ r.name = e.name)}
    \cup {[short_id |-> shortId, path |-> path, name |-> e.name,
           is_dir |-> e.isDirectory,
           size_low |-> e.fileSizeLow, size_high |-> e.fileSizeHigh,
           mtime_low |-> e.lastWriteTime.dwLowDateTime,
           mtime_high |-> e.lastWriteTime.dwHighDateTime]}

\* A faulty sentinel write, for comparison: the count adds to the stored one.
InsertSentinel_Accumulate(rows, shortId, path, count) ==
    LET old == {r \in rows : r.short_id = shortId /\ r.path = path}
        oldCount == IF old = {} THEN 0 ELSE (CHOOSE r \in old : TRUE).entry_count
    IN  (rows \ old) \cup {[short_id |-> shortId, path |-> path,
                            entry_count |-> oldCount + count]}

\* INSERT OR REPLACE INTO cached_dirs: primary key (short_id, path).  The
\* cached_at column is written and never read; it is left out of the row.
InsertSentinel(rows, shortId, path, count) ==
    {r \in rows : ~(r.short_id = shortId /\ r.path = path)}
    \cup {[short_id |-> shortId, path |-> path, entry_count |-> count]}

\* The loop of LsCache_Store over entries[0..count-1].
RECURSIVE InsertEntries(_, _, _, _, _)
InsertEntries(rows, shortId, path, entries, count) ==
    IF count = 0 THEN rows
    ELSE InsertEntry(InsertEntries(rows, shortId, path, entries, count - 1),
                     shortId, path, entries[count])

\* A transaction on a connection: the tables saved at BEGIN and the tables
\* the statements of the transaction have written so far.
Begin(dirs, ents) == [saved |-> [dirs |-> dirs, ents |-> ents],
                      work |-> [dirs |-> dirs, ents |-> ents]]

\* A faulty ROLLBACK, for comparison: the rows written so far stay.
Rollback_KeepsWork(txn) == txn.work

\* ROLLBACK: the tables are those saved at BEGIN.
Rollback(txn) == txn.saved

\* COMMIT: the tables are those the transaction wrote.
Commit(txn) == txn.work

\* The statement of LsCache_Store that fails: 0 is BEGIN, i in 1..count the
\* INSERT of entries[i-1], count + 1 the INSERT of the sentinel; count + 2
\* says that no statement fails.
StoreFaults(count) == 0..(count + 2)
NoStoreFault(count) == count + 2

\* LsCache_Store when statement failAt fails: the tables of one repository
\* after the call, as [dirs |-> cached_dirs, ents |-> dir_entries].  The
\* result of COMMIT is not read by the code; COMMIT is taken to succeed.
LsCache_StoreSteps(init, dirs, ents, repoName, shortId, path, entries, count, failAt) ==
    LET txn == Begin(dirs, ents)
        inserted(n) == [txn EXCEPT !.work.ents =
                            InsertEntries(txn.work.ents, shortId, path, entries, n)]
        all == inserted(count)
        done == [all EXCEPT !.work.dirs = InsertSentinel(all.work.dirs, shortId, path, count)]
    IN  IF ~init \/ GetConnection(repoName) = NULL THEN [dirs |-> dirs, ents |-> ents]
        ELSE IF failAt = 0 THEN [dirs |-> dirs, ents |-> ents]
        ELSE IF failAt \in 1..count THEN Rollback(inserted(failAt - 1))
        ELSE IF failAt = count + 1 THEN Rollback(all)
        ELSE Commit(done)

\* LsCache_Store: the tables of one repository after the call, as
\* [dirs |-> cached_dirs, ents |-> dir_entries].  BEGIN .. COMMIT with every
\* statement succeeding.
LsCache_Store(init, dirs, ents, repoName, shortId, path, entries, count) ==
    LsCache_StoreSteps(init, dirs, ents, repoName, shortId, path, entries, count,
                       NoStoreFault(count))

\* A DirEntry read back from a row of dir_entries.  Each column holds a DWORD
\* widened to sqlite3_int64; the cast back to DWORD returns it.
RowToDirEntry(r) ==
    [name |-> r.name, isDirectory |-> r.is_dir,
     fileSizeLow |-> r.size_low, fileSizeHigh |-> r.size_high,
     lastWriteTime |-> [dwLowDateTime |-> r.mtime_low,
                        dwHighDateTime |-> r.mtime_high]]

\* The arrays a scan of `rows` can fill when it stops after idx rows.  The
\* SELECT has no ORDER BY: any order of the matching rows is possible.
RECURSIVE ScanOrders(_, _)
ScanOrders(rows, idx) ==
    IF idx = 0 \/ rows = {} THEN {<<>>}
    ELSE UNION {{<<RowToDirEntry(r)>> \o rest : rest \in ScanOrders(rows \ {r}, idx - 1)}
                : r \in rows}

LookupMiss == [ptr |-> NULL, outCount |-> 0, entries |-> <<>>]

\* LsCache_Lookup: the set of results the call can return, each
\* [ptr, outCount, entries]: the returned pointer, *outCount and the array.
LsCache_Lookup(init, dirs, ents, repoName, shortId, path) ==
    LET sentinel == {r \in dirs : r.short_id = shortId /\ r.path = path}
        entryCount == (CHOOSE r \in sentinel : TRUE).entry_count
        matching == {r \in ents : r.short_id = shortId /\ r.path = path}
    IN  IF ~init \/ GetConnection(repoName) = NULL THEN {LookupMiss}
        ELSE IF sentinel = {} THEN {LookupMiss}
        ELSE IF entryCount = 0 THEN {[ptr |-> NULL, outCount |-> 0, entries |-> <<>>]}
        ELSE IF matching = {} THEN {LookupMiss}
        ELSE {[ptr |-> NONNULL, outCount |-> Len(a), entries |-> a]
              : a \in ScanOrders(matching, entryCount)}

-----------------------------------------------------------------------------
(* json_parse.c: the entries of a recursive listing *)

\* json_parse.h ResticLsEntry.  mtime is the text of the "mtime" field, held
\* as what sscanf("%d-%d-%dT%d:%d:%d") reads from it: n fields converted, and
\* their values.
ResticLsEntry(name, path, type, sizeLow, sizeHigh, mtime) ==
    [name |-> name, path |-> path, type |-> type,
     sizeLow |-> sizeLow, sizeHigh |-> sizeHigh, mtime |-> mtime]

MTime(n, yr, mo, dy, hr, mn, sc) ==
    [n |-> n, yr |-> yr, mo |-> mo, dy |-> dy, hr |-> hr, mn |-> mn, sc |-> sc]

\* SystemTimeToFileTime: 100 ns ticks since 1601-01-01T00:00:00, as two
\* DWORDs; the FILETIME is left zeroed when the date is invalid.  The dates
\* the model draws lie in the first minutes of 1601-01-01, so the tick count
\* fits the low DWORD.
SystemTimeToFileTime(st) ==
    IF st.wMonth \notin 1..12 \/ st.wDay \notin 1..31 \/ st.wYear < 1601
       \/ st.wHour > 23 \/ st.wMinute > 59 \/ st.wSecond > 59
    THEN FileTime(0, 0)
    ELSE CASE st.wYear = 1601 /\ st.wMonth = 1 /\ st.wDay = 1 /\ st.wHour = 0 /\ st.wMinute < 3 ->
              FileTime((st.wMinute * 60 + st.wSecond) * 10000000, 0)

\* ParseISOTime: zeroed FILETIME unless sscanf converted at least 3 fields.
ParseISOTime(timeStr) ==
    IF timeStr.n >= 3
    THEN SystemTimeToFileTime([wYear |-> timeStr.yr, wMonth |-> timeStr.mo,
                               wDay |-> timeStr.dy, wHour |-> timeStr.hr,
                               wMinute |-> timeStr.mn, wSecond |-> timeStr.sc])
    ELSE FileTime(0, 0)

-----------------------------------------------------------------------------
(* wfx_interface.c: bulk ingestion of one recursive listing *)

\* A faulty parent path, for comparison: every entry lies in the root.
GetParentPath_Root(path) == <<CH_SLASH>>

\* GetParentPath with every path shorter than MAX_PATH.
GetParentPath(path) ==
    LET lastSlash == strrchr(path, CH_SLASH)
    IN  IF lastSlash = 0 \/ lastSlash = 1 THEN <<CH_SLASH>>
        ELSE SubSeq(path, 1, lastSlash - 1)

CompareByParentPath(a, b) == strcmp(GetParentPath(a.path), GetParentPath(b.path))

\* qsort(allEntries, allCount, .., CompareByParentPath): the arrays the sort
\* can leave.  The order of entries that compare equal is unspecified.
qsort(allEntries) ==
    LET n == Len(allEntries)
    IN  {[i \in 1..n |-> allEntries[f[i]]] :
            f \in {g \in [1..n -> 1..n] :
                     /\ \A i, j \in 1..n : i # j => g[i] # g[j]
                     /\ \A i, j \in 1..n : i < j =>
                           CompareByParentPath(allEntries[g[i]], allEntries[g[j]]) <= 0}}

\* A faulty group end, for comparison: every entry is a group of its own.
GroupEnd_One(allEntries, i, currentParent) == i + 1

\* The inner while loop: the index after the last entry of the group.
RECURSIVE GroupEnd(_, _, _)
GroupEnd(allEntries, i, currentParent) ==
    IF i > Len(allEntries) THEN i
    ELSE IF strcmp(GetParentPath(allEntries[i].path), currentParent) # 0 THEN i
    ELSE GroupEnd(allEntries, i + 1, currentParent)

\* ResticLsEntry -> DirEntry (lines 752-761).
ToDirEntry(le) ==
    DirEntry(le.name, IF le.type = "dir" THEN 1 ELSE 0,
             le.sizeLow, le.sizeHigh, ParseISOTime(le.mtime))

\* The outer while loop from index i on.  acc holds the tables, the parent
\* paths recorded so far and the group returned to the caller.
RECURSIVE GroupLoop(_, _, _, _, _, _, _)
GroupLoop(init, repoName, shortId, requestedPathUtf8, allEntries, i, acc) ==
    IF i > Len(allEntries) THEN acc
    ELSE LET currentParent == GetParentPath(allEntries[i].path)
             groupStart == i
             groupEnd == GroupEnd(allEntries, i, currentParent)
             groupCount == groupEnd - groupStart
             dirEntries == [j \in 1..groupCount |-> ToDirEntry(allEntries[groupStart + j - 1])]
             t == LsCache_Store(init, acc.dirs, acc.ents, repoName, shortId,
                                currentParent, dirEntries, groupCount)
             isRequested == strcmp(currentParent, requestedPathUtf8) = 0
         IN  GroupLoop(init, repoName, shortId, requestedPathUtf8, allEntries, groupEnd,
                       [dirs |-> t.dirs, ents |-> t.ents,
                        parentPathList |-> Append(acc.parentPathList, currentParent),
                        outDirectChildren |-> IF isRequested THEN dirEntries
                                              ELSE acc.outDirectChildren,
                        outDirectCount |-> IF isRequested THEN groupCount
                                           ELSE acc.outDirectCount])

\* A faulty search, for comparison: every directory is taken to have children.
BinarySearch_Found(parentPathList, path, lo, hi) == TRUE

\* The binary search of lines 783-793, lo and hi counted from 0.
RECURSIVE BinarySearch(_, _, _, _)
BinarySearch(parentPathList, path, lo, hi) ==
    IF lo > hi THEN FALSE
    ELSE LET mid == (lo + hi) \div 2
             cmp == strcmp(path, parentPathList[mid + 1])
         IN  IF cmp = 0 THEN TRUE
             ELSE IF cmp < 0 THEN BinarySearch(parentPathList, path, lo, mid - 1)
             ELSE BinarySearch(parentPathList, path, mid + 1, hi)

\* The loop of lines 777-799 from index i on: a zero-count sentinel for every
\* entry of type "dir" whose path is not among the recorded parents.
RECURSIVE EmptyDirLoop(_, _, _, _, _, _)
EmptyDirLoop(init, repoName, shortId, allEntries, i, acc) ==
    IF i > Len(allEntries) THEN acc
    ELSE IF allEntries[i].type # "dir"
         THEN EmptyDirLoop(init, repoName, shortId, allEntries, i + 1, acc)
    ELSE IF BinarySearch(acc.parentPathList, allEntries[i].path, 0, Len(acc.parentPathList) - 1)
         THEN EmptyDirLoop(init, repoName, shortId, allEntries, i + 1, acc)
    ELSE LET t == LsCache_Store(init, acc.dirs, acc.ents, repoName, shortId,
                                allEntries[i].path, <<>>, 0)
         IN  EmptyDirLoop(init, repoName, shortId, allEntries, i + 1,
                          [acc EXCEPT !.dirs = t.dirs, !.ents = t.ents])

\* BulkCacheSubdirectories: the set of outcomes, one per array the sort can
\* leave, each [dirs, ents, parentPathList, outDirectChildren, outDirectCount].
BulkCacheSubdirectories(init, dirs, ents, repoName, shortId, requestedPathUtf8, allEntries) ==
    LET acc0 == [dirs |-> dirs, ents |-> ents, parentPathList |-> <<>>,
                 outDirectChildren |-> <<>>, outDirectCount |-> 0]
    IN  IF Len(allEntries) <= 0 THEN {acc0}
        ELSE {EmptyDirLoop(init, repoName, shortId, sorted, 1,
                           GroupLoop(init, repoName, shortId, requestedPathUtf8, sorted, 1, acc0))
              : sorted \in qsort(allEntries)}

-----------------------------------------------------------------------------
(* ls_cache.c: opening the database of a repository *)

\* A faulty opening, for comparison: a failed sqlite3_open is not retried.
GetConnectionSteps_NoRetry(dbs, repoName, opens, schemas, prepareOk) ==
    IF repoName \in dbs THEN [conn |-> NONNULL, dbs |-> dbs, deletes |-> 0, opened |-> 0]
    ELSE IF opens[1] /\ schemas[1] /\ prepareOk
    THEN [conn |-> NONNULL, dbs |-> dbs \cup {repoName}, deletes |-> 0, opened |-> 1]
    ELSE [conn |-> NULL, dbs |-> dbs, deletes |-> 0, opened |-> 1]

\* GetConnection with its failures.  dbs is the set of repositories with a
\* connection in g_Dbs; opens[i] is whether the i-th sqlite3_open of the call
\* succeeds, schemas[i] whether the i-th CreateSchema does, prepareOk whether
\* PrepareStatements does.  The result is the connection (NULL on failure),
\* g_Dbs after the call, and the numbers of DeleteFileA and sqlite3_open
\* calls made.  The cache directory exists and g_Dbs has room.
GetConnectionSteps(dbs, repoName, opens, schemas, prepareOk) ==
    LET res(conn, d, o) ==
            [conn |-> conn, dbs |-> IF conn = NULL THEN dbs ELSE dbs \cup {repoName},
             deletes |-> d, opened |-> o]
        \* Lines 175-197, reached with an open database after d deletions and
        \* o opens.
        schema(d, o) ==
            IF schemas[1]
            THEN (IF prepareOk THEN res(NONNULL, d, o) ELSE res(NULL, d, o))
            ELSE IF ~opens[o + 1] \/ ~schemas[2] THEN res(NULL, d + 1, o + 1)
            ELSE IF prepareOk THEN res(NONNULL, d + 1, o + 1)
            ELSE res(NULL, d + 1, o + 1)
    IN  IF repoName \in dbs THEN [conn |-> NONNULL, dbs |-> dbs, deletes |-> 0, opened |-> 0]
        ELSE IF opens[1] THEN schema(0, 1)
        ELSE IF ~opens[2] THEN res(NULL, 1, 2)
        ELSE schema(1, 2)

-----------------------------------------------------------------------------
(* ls_cache.c: purge; the loaded marker of ls_cache.h *)

\* A faulty purge, for comparison: nothing is deleted.
LsCache_PurgeSteps_Nothing(init, dirs, ents, repoName, validShortIds, validCount, okEntries, okDirs) ==
    [dirs |-> dirs, ents |-> ents]

\* LsCache_Purge as its two DELETE statements, each run on its own (there is
\* no BEGIN): first dir_entries, then cached_dirs.  okEntries and okDirs say
\* whether the statement is prepared and steps to SQLITE_DONE; a statement
\* that fails leaves its table as it was and the other one still runs.
LsCache_PurgeSteps(init, dirs, ents, repoName, validShortIds, validCount, okEntries, okDirs) ==
    LET valid == {validShortIds[i] : i \in 1..validCount}
    IN  IF ~init \/ validCount <= 0 \/ GetConnection(repoName) = NULL
        THEN [dirs |-> dirs, ents |-> ents]
        ELSE [dirs |-> IF okDirs THEN {r \in dirs : r.short_id \in valid} ELSE dirs,
              ents |-> IF okEntries THEN {r \in ents : r.short_id \in valid} ELSE ents]

\* LsCache_Purge: both tables without the rows whose short_id is not among
\* validShortIds[0..validCount-1], both statements succeeding.
LsCache_Purge(init, dirs, ents, repoName, validShortIds, validCount) ==
    LsCache_PurgeSteps(init, dirs, ents, repoName, validShortIds, validCount, TRUE, TRUE)

\* A faulty return value, for comparison: the rows the first statement deleted
\* only.
LsCache_PurgeResult_First(init, dirs, ents, repoName, validShortIds, validCount, okEntries, okDirs) ==
    LET valid == {validShortIds[i] : i \in 1..validCount}
    IN  IF ~init \/ GetConnection(repoName) = NULL THEN -1
        ELSE IF okEntries THEN Cardinality({r \in ents : r.short_id \notin valid}) ELSE 0

\* The value LsCache_Purge returns: -1 when the cache is not initialised or
\* there is no connection, 0 at once for an empty list, else totalDeleted, the
\* sqlite3_changes of each DELETE that stepped to SQLITE_DONE.
LsCache_PurgeResult(init, dirs, ents, repoName, validShortIds, validCount, okEntries, okDirs) ==
    LET valid == {validShortIds[i] : i \in 1..validCount}
    IN  IF ~init THEN -1
        ELSE IF validCount <= 0 THEN 0
        ELSE IF GetConnection(repoName) = NULL THEN -1
        ELSE (IF okEntries THEN Cardinality({r \in ents : r.short_id \notin valid}) ELSE 0)
             + (IF okDirs THEN Cardinality({r \in dirs : r.short_id \notin valid}) ELSE 0)

\* LsCache_IsSnapshotLoaded and LsCache_MarkSnapshotLoaded: a flag per
\* (repository, short id) that stays set once set.
LsCache_IsSnapshotLoaded(loaded, repoName, shortId) == <<repoName, shortId>> \in loaded

LsCache_MarkSnapshotLoaded(loaded, repoName, shortId) == loaded \cup {<<repoName, shortId>>}

-----------------------------------------------------------------------------
(* wfx_interface.c: the snapshot-list cache *)

SNAPSHOT_CACHE_TTL_MS == 300000
MAX_REPOS == 16
LS_CACHE_MAX == 32

\* json_parse.h ResticSnapshot: the fields the resolver reads.
ResticSnapshot(shortId, time, paths) == [shortId |-> shortId, time |-> time, paths |-> paths]

\* What RunRestic can return: NULL (the process could not be run), output
\* with a nonzero exit code, output with exit code 0.
RunOutcomes == {"norun", "failed", "ok"}

\* A faulty comparison, for comparison: oldest first.
CompareSnapshotsDesc_Asc(a, b) == strcmp(a.time, b.time)

CompareSnapshotsDesc(a, b) == strcmp(b.time, a.time)

\* ParseSnapshots on the JSON array `json` (a set of snapshots): the arrays the
\* qsort by CompareSnapshotsDesc can leave; count is their length.  When no
\* two snapshots have the same time there is one such array: each snapshot
\* stands after the snapshots that compare before it.
ParseSnapshots(json) ==
    LET n == Cardinality(json)
        placed == {<<Cardinality({x \in json : CompareSnapshotsDesc(x, s) < 0}) + 1, s>>
                   : s \in json}
    IN  IF Cardinality({s.time : s \in json}) = n
        THEN {[i \in 1..n |-> (CHOOSE p \in placed : p[1] = i)[2]]}
        ELSE {f \in [1..n -> json] :
                 /\ \A i, j \in 1..n : i # j => f[i] # f[j]
                 /\ \A i, j \in 1..n : i < j => CompareSnapshotsDesc(f[i], f[j]) <= 0}

\* A faulty removal, for comparison: the slot stays.
RemoveSlot_Keep(cache, i) == cache

\* Removal of slot i of a cache array: the last entry moves into the slot.
RemoveSlot(cache, i) ==
    LET n == Len(cache)
    IN  [j \in 1..(n - 1) |-> IF j = i THEN cache[n] ELSE cache[j]]

\* The first slot of g_SnapCache holding repoName, 0 when there is none.
FindSnapSlot(cache, repoName) ==
    LET hits == {i \in 1..Len(cache) : cache[i].repoName = repoName}
    IN  IF hits = {} THEN 0 ELSE CHOOSE i \in hits : \A j \in hits : i <= j

\* A faulty invalidation, for comparison: the entries of all repositories go.
InvalidateSnapshotCache_All(cache, repoName) == <<>>

\* A faulty invalidation, for comparison: the entry stays.
InvalidateSnapshotCache_Keep(cache, repoName) == cache

InvalidateSnapshotCache(cache, repoName) ==
    LET i == FindSnapSlot(cache, repoName)
    IN  IF i = 0 THEN cache ELSE RemoveSlot(cache, i)

\* FetchSnapshots: the set of outcomes of one call at tick count t, when
\* RunRestic would return `run` and the repository holds `json`.  An outcome is
\* [cache, hasPassword, dirs, ents, numSnaps, snapshots, runs]; runs lists the
\* restic commands run.  okEntries and okDirs say whether the two DELETE
\* statements of LsCache_Purge succeed.
FetchSnapshotsSteps(t, cache, init, dirs, ents, hasPw, repoName, run, json, okEntries, okDirs) ==
    LET i == FindSnapSlot(cache, repoName)
        hit == i # 0 /\ t - cache[i].fetchTimeMs < SNAPSHOT_CACHE_TTL_MS
        expired == IF i # 0 THEN RemoveSlot(cache, i) ELSE cache
        out(c, pw, d, e, n, snaps, runs) ==
            [cache |-> c, hasPassword |-> pw, dirs |-> d, ents |-> e,
             numSnaps |-> n, snapshots |-> snaps, runs |-> runs]
        cmd == <<"snapshots">>
    IN  IF hit THEN {out(cache, hasPw, dirs, ents, cache[i].count, cache[i].snapshots, <<>>)}
        ELSE IF run = "norun" THEN {out(expired, hasPw, dirs, ents, 0, <<>>, cmd)}
        ELSE IF run = "failed"
             THEN {out(InvalidateSnapshotCache(expired, repoName), FALSE, dirs, ents, 0, <<>>, cmd)}
        ELSE {LET numSnaps == Len(snaps)
                  stored == IF Len(expired) < MAX_REPOS
                            THEN Append(expired, [repoName |-> repoName, snapshots |-> snaps,
                                                  count |-> numSnaps, fetchTimeMs |-> t])
                            ELSE expired
                  validCount == IF numSnaps < 256 THEN numSnaps ELSE 256
                  validIds == [k \in 1..validCount |-> snaps[k].shortId]
                  p == LsCache_PurgeSteps(init, dirs, ents, repoName, validIds, validCount,
                                          okEntries, okDirs)
              IN  IF numSnaps <= 0 THEN out(expired, hasPw, dirs, ents, 0, <<>>, cmd)
                  ELSE out(stored, hasPw, p.dirs, p.ents, numSnaps, snaps, cmd)
              : snaps \in ParseSnapshots(json)}

\* A faulty fetch, for comparison: a backend that could not be started is
\* handled like a run with a nonzero exit code.
FetchSnapshots_NoRunFails(t, cache, init, dirs, ents, hasPw, repoName, run, json) ==
    FetchSnapshotsSteps(t, cache, init, dirs, ents, hasPw, repoName,
                        IF run = "norun" THEN "failed" ELSE run, json, TRUE, TRUE)

\* FetchSnapshots with both DELETE statements of the purge succeeding.
FetchSnapshots(t, cache, init, dirs, ents, hasPw, repoName, run, json) ==
    FetchSnapshotsSteps(t, cache, init, dirs, ents, hasPw, repoName, run, json, TRUE, TRUE)

-----------------------------------------------------------------------------
(* wfx_interface.c: names and paths of the virtual namespace *)

\* SanitizePath: \ / : become _, leading and trailing _ are stripped, and a
\* name left empty by the stripping becomes _.
SanitizePath(raw) ==
    LET out == [i \in 1..Len(raw) |->
                  IF raw[i] \in {CH_BACKSLASH, CH_SLASH, CH_COLON} THEN CH_UNDERSCORE ELSE raw[i]]
        keep == {i \in 1..Len(out) : out[i] # CH_UNDERSCORE}
        start == IF keep = {} THEN Len(out) + 1 ELSE CHOOSE i \in keep : \A j \in keep : i <= j
        end == IF keep = {} THEN Len(out) ELSE CHOOSE i \in keep : \A j \in keep : j <= i
    IN  IF start > 1 \/ end < Len(out)
        THEN (IF end - start + 1 <= 0 THEN <<CH_UNDERSCORE>> ELSE SubSeq(out, start, end))
        ELSE out

BackslashToForwardSlash(path) ==
    [i \in 1..Len(path) |-> IF path[i] = CH_BACKSLASH THEN CH_SLASH ELSE path[i]]

RECURSIVE CollapseSlashes(_)
CollapseSlashes(path) ==
    IF Len(path) <= 1 THEN path
    ELSE IF path[1] = CH_SLASH /\ path[2] = CH_SLASH THEN CollapseSlashes(Tail(path))
    ELSE <<path[1]>> \o CollapseSlashes(Tail(path))

IsDriveLetter(c) == (c >= CH_UPPER_A /\ c <= CH_UPPER_Z) \/ (c >= CH_a /\ c <= CH_LOWER_z)

ToResticInternalPath(winPath) ==
    LET drive == Len(winPath) >= 2 /\ winPath[2] = CH_COLON /\ IsDriveLetter(winPath[1])
        raw == IF drive THEN <<CH_SLASH, winPath[1]>> \o SubSeq(winPath, 3, Len(winPath))
               ELSE winPath
        outPath == CollapseSlashes(BackslashToForwardSlash(raw))
    IN  IF Len(outPath) > 1 /\ outPath[Len(outPath)] = CH_SLASH
        THEN SubSeq(outPath, 1, Len(outPath) - 1)
        ELSE outPath

BuildLsSubpath(originalBackupPath, rest) ==
    ToResticInternalPath(IF rest # <<>> THEN originalBackupPath \o <<CH_SLASH>> \o rest
                         ELSE originalBackupPath)

\* The name GetSnapshotsForPath shows for a snapshot: its time, then the short
\* id in parentheses.
DisplayName(snap) == snap.time \o <<CH_SPACE, CH_LPAREN>> \o snap.shortId \o <<CH_RPAREN>>

\* ExtractShortId: [ok, shortId], the text between the last ( and the last ).
\* The ids of the model are shorter than the 16 byte buffer.
ExtractShortId(displayName) ==
    LET open == strrchr(displayName, CH_LPAREN)
        close == strrchr(displayName, CH_RPAREN)
    IN  IF open = 0 \/ close = 0 \/ close <= open + 1
        THEN [ok |-> FALSE, shortId |-> <<>>]
        ELSE [ok |-> TRUE, shortId |-> SubSeq(displayName, open + 1, close - 1)]

\* The loops of FindOriginalPath over snapshots[0..numSnaps-1] and their
\* paths: [ok, originalPath], the first path whose sanitized name matches.
FindOriginalPath(snapshots, numSnaps, sanitizedName) ==
    LET hits == {ij \in (1..numSnaps) \X (1..8) :
                    /\ ij[2] <= Len(snapshots[ij[1]].paths)
                    /\ strcmp(SanitizePath(snapshots[ij[1]].paths[ij[2]]), sanitizedName) = 0}
        first == CHOOSE ij \in hits : \A kl \in hits :
                    ij[1] < kl[1] \/ (ij[1] = kl[1] /\ ij[2] <= kl[2])
    IN  IF numSnaps = 0 \/ hits = {} THEN [ok |-> FALSE, originalPath |-> <<>>]
        ELSE [ok |-> TRUE, originalPath |-> snapshots[first[1]].paths[first[2]]]

-----------------------------------------------------------------------------
(* What the caller of LsCache_Lookup concludes from (pointer, *outCount), as *)
(* GetSnapshotContents reads it: a non-NULL pointer is a hit, empty when     *)
(* *outCount is 0; a NULL pointer is a miss.                                 *)

CallerState(res) ==
    IF res.ptr # NULL
    THEN (IF res.outCount > 0 THEN "nonemptyHit" ELSE "emptyHit")
    ELSE "unknown"

-----------------------------------------------------------------------------
(* wfx_interface.c: GetSnapshotContents *)

\* A faulty search, for comparison: the path is not compared.
FindLsSlot_AnyPath(lsCache, shortId, path) ==
    LET hits == {i \in 1..Len(lsCache) : strcmp(lsCache[i].shortId, shortId) = 0}
    IN  IF hits = {} THEN 0 ELSE CHOOSE i \in hits : \A j \in hits : i <= j

\* The first slot of g_LsCache with the short id and the path, 0 when none.
\* The repository is no part of the key.
FindLsSlot(lsCache, shortId, path) ==
    LET hits == {i \in 1..Len(lsCache) :
                    strcmp(lsCache[i].shortId, shortId) = 0 /\ strcmp(lsCache[i].path, path) = 0}
    IN  IF hits = {} THEN 0 ELSE CHOOSE i \in hits : \A j \in hits : i <= j

\* A faulty insertion, for comparison: the newest slot is dropped when full.
LsCacheInsert_DropNewest(lsCache, shortId, path, entries, count) ==
    Append(IF Len(lsCache) >= LS_CACHE_MAX THEN SubSeq(lsCache, 1, Len(lsCache) - 1)
           ELSE lsCache,
           [shortId |-> shortId, path |-> path, entries |-> entries, count |-> count])

\* Lines 854-868 and 936-951: append to g_LsCache, dropping slot 0 when full.
LsCacheInsert(lsCache, shortId, path, entries, count) ==
    Append(IF Len(lsCache) >= LS_CACHE_MAX THEN Tail(lsCache) ELSE lsCache,
           [shortId |-> shortId, path |-> path, entries |-> entries, count |-> count])

\* A faulty ingestion, for comparison: the snapshot is not marked loaded.
IngestListing_NoMark(s, repoName, shortId, lsSubpathUtf8, allEntries) ==
    {[st |-> [s EXCEPT !.dirs = b.dirs, !.ents = b.ents],
      outDirectChildren |-> b.outDirectChildren,
      outDirectCount |-> b.outDirectCount]
     : b \in BulkCacheSubdirectories(s.init, s.dirs, s.ents, repoName, shortId,
                                      lsSubpathUtf8, allEntries)}

\* Lines 906-924 with a listing of at least one entry: the ingestion, then the
\* loaded mark.  The outcomes are [st, outDirectChildren, outDirectCount].
IngestListing(s, repoName, shortId, lsSubpathUtf8, allEntries) ==
    {[st |-> [s EXCEPT !.dirs = b.dirs, !.ents = b.ents,
                       !.loaded = LsCache_MarkSnapshotLoaded(s.loaded, repoName, shortId)],
      outDirectChildren |-> b.outDirectChildren,
      outDirectCount |-> b.outDirectCount]
     : b \in BulkCacheSubdirectories(s.init, s.dirs, s.ents, repoName, shortId,
                                      lsSubpathUtf8, allEntries)}

NoFetch == [called |-> FALSE, numSnaps |-> 0, snapshots |-> <<>>, runs |-> <<>>]

\* GetSnapshotContents: the set of outcomes of one call.  st is the state read
\* and written: [now, snapCache, lsCache, init, dirs, ents, loaded, hasPassword];
\* env is what the backend would answer: [runSnapshots, json, runLs, tree].
\* An outcome is the state left, the returned entries, *outCount, the restic
\* commands run, and what the call of FetchSnapshots returned.
GetSnapshotContents(st, env, repoName, sanitizedPath, snapshotDisplayName, subpath) ==
    LET id == ExtractShortId(snapshotDisplayName)
        shortId == id.shortId
        fetches == FetchSnapshots(st.now, st.snapCache, st.init, st.dirs, st.ents,
                                  st.hasPassword, repoName, env.runSnapshots, env.json)
        after(f) == [st EXCEPT !.snapCache = f.cache, !.hasPassword = f.hasPassword,
                               !.dirs = f.dirs, !.ents = f.ents]
        fetched(f) == [called |-> TRUE, numSnaps |-> f.numSnaps,
                       snapshots |-> f.snapshots, runs |-> f.runs]
        done(s, entries, count, runs, f) ==
            [st |-> s, entries |-> entries, outCount |-> count, runs |-> runs, fetched |-> f]
        \* From line 830 on, in state s, after the fetch f.
        rest(s, originalPath, f) ==
            LET lsSubpathUtf8 == BuildLsSubpath(originalPath, subpath)
                slot == FindLsSlot(s.lsCache, shortId, lsSubpathUtf8)
                lookups == LsCache_Lookup(s.init, s.dirs, s.ents, repoName, shortId, lsSubpathUtf8)
                \* restic ls of an id the repository does not hold exits nonzero.
                held == \E sn \in env.json : sn.shortId = shortId
                runLs == IF env.runLs = "ok" /\ ~held THEN "failed" ELSE env.runLs
                allEntries == env.tree[shortId]
                runs == f.runs
                lsRuns == Append(f.runs, "ls")
                fromDb(l) ==
                    IF l.ptr # NULL
                    THEN {IF l.outCount > 0
                          THEN done([s EXCEPT !.lsCache = LsCacheInsert(s.lsCache, shortId,
                                                  lsSubpathUtf8, l.entries, l.outCount)],
                                    l.entries, l.outCount, runs, f)
                          ELSE done(s, <<>>, 0, runs, f)}
                    ELSE IF LsCache_IsSnapshotLoaded(s.loaded, repoName, shortId)
                    THEN {done(s, <<>>, 0, runs, f)}
                    ELSE IF runLs # "ok" THEN {done(s, <<>>, 0, lsRuns, f)}
                    ELSE IF Len(allEntries) <= 0 THEN {done(s, <<>>, 0, lsRuns, f)}
                    ELSE {IF b.outDirectCount <= 0 THEN done(b.st, <<>>, 0, lsRuns, f)
                          ELSE done([b.st EXCEPT !.lsCache =
                                        LsCacheInsert(s.lsCache, shortId, lsSubpathUtf8,
                                                      b.outDirectChildren, b.outDirectCount)],
                                    b.outDirectChildren, b.outDirectCount, lsRuns, f)
                          : b \in IngestListing(s, repoName, shortId, lsSubpathUtf8, allEntries)}
            IN  IF slot # 0
                THEN {done(s, s.lsCache[slot].entries, s.lsCache[slot].count, runs, f)}
                ELSE UNION {fromDb(l) : l \in lookups}
    IN  IF ~id.ok THEN {done(st, <<>>, 0, <<>>, NoFetch)}
        ELSE UNION {LET found == FindOriginalPath(f.snapshots, f.numSnaps, sanitizedPath)
                    IN  IF ~found.ok THEN {done(after(f), <<>>, 0, f.runs, fetched(f))}
                        ELSE rest(after(f), found.originalPath, fetched(f))
                    : f \in fetches}

\* RepoStore_EnsurePassword: [ok, hasPassword]; the user is asked when no
\* password is held, and answers (entered) or cancels.
RepoStore_EnsurePassword(hasPw, entered) ==
    IF hasPw THEN [ok |-> TRUE, hasPassword |-> TRUE]
    ELSE IF entered THEN [ok |-> TRUE, hasPassword |-> TRUE]
    ELSE [ok |-> FALSE, hasPassword |-> FALSE]

-----------------------------------------------------------------------------
(* wfx_interface.c: the batch restore session of a multi-file copy           *)

\* g_BatchRestore after memset(&g_BatchRestore, 0, ...): every flag FALSE and
\* every string empty.
BatchZero ==
    [active |-> FALSE, pending |-> FALSE, tempDir |-> <<>>, resticPrefix |-> <<>>,
     repoPath |-> <<>>, password |-> <<>>, snapshotPath |-> <<>>, shortId |-> <<>>]

\* The directory restoreSub of FsStatusInfo: restore_<shortId>_<random>; rnd
\* is the text of GetSecureRandomValue().
RestoreSub(shortId, rnd) == shortId \o <<CH_UNDERSCORE>> \o rnd

\* A directory of the file system: whether it exists, and the restic paths of
\* the files below it.
NoDir == [exists |-> FALSE, files |-> {}]
EmptyDir == [exists |-> TRUE, files |-> {}]

\* A faulty deletion, for comparison: the directory stays.
DeleteDirectoryRecursive_Keep(fs, dirPath) == fs

\* DeleteDirectoryRecursive: the directory and everything below it are gone;
\* a directory that does not exist (FindFirstFileA fails) is left alone.
DeleteDirectoryRecursive(fs, dirPath) ==
    IF dirPath \in DOMAIN fs /\ fs[dirPath].exists
    THEN [fs EXCEPT ![dirPath] = NoDir]
    ELSE fs

\* DeleteTempDir of FsDisconnect: DeleteFileA on every name directly inside
\* %TEMP%\restic_wfx, then RemoveDirectoryA.  DeleteFileA does not delete a
\* directory and RemoveDirectoryA does not remove a directory that is not
\* empty, so the restore_* directories stay.
DeleteTempDir(fs) == fs

\* A faulty test, for comparison: every file is taken to be restored.
TempFileExists_Always(fs, tempDir, resticPath) == TRUE

\* BuildBatchTempFilePath and GetFileAttributesW (lines 1631-1639): whether
\* tempDir + resticPath, / turned into \, names an existing file.  restic
\* restore --target writes each file at target + its path in the snapshot.
TempFileExists(fs, tempDir, resticPath) ==
    tempDir \in DOMAIN fs /\ fs[tempDir].exists /\ resticPath \in fs[tempDir].files

\* A faulty include path, for comparison: always the requested file itself.
IncludePath_File(resticPrefix, resticPath) == resticPath

\* The include path of the deferred restore (lines 1585-1605): resticPath up
\* to the first / after the prefix, the whole of resticPath when there is none.
IncludePath(resticPrefix, resticPath) ==
    LET prefixLen == Len(resticPrefix)
        skip == IF prefixLen < Len(resticPath) /\ resticPath[prefixLen + 1] = CH_SLASH
                THEN prefixLen + 1 ELSE prefixLen
        afterPrefix == SubSeq(resticPath, skip + 1, Len(resticPath))
        nextSlash == strchr(afterPrefix, CH_SLASH)
    IN  IF nextSlash # 0 THEN SubSeq(resticPath, 1, skip + nextSlash - 1)
        ELSE resticPath

\* Whether restic restore --include includePath restores the file at path:
\* the path is includePath or lies below it.
Included(includePath, path) ==
    \/ path = includePath
    \/ /\ Len(path) > Len(includePath)
       /\ SubSeq(path, 1, Len(includePath)) = includePath
       /\ path[Len(includePath) + 1] = CH_SLASH

\* RunResticRestore into targetDir (restic_process.c 397-470): [ok, fs].
\* `run` is what becomes of the process; held are the files of the snapshot.
\* Only a run with exit code 0 is a success, and it leaves the included files
\* in the target directory.
RunResticRestore(fs, run, held, includePath, targetDir) ==
    IF run = "ok" /\ targetDir \in DOMAIN fs /\ fs[targetDir].exists
    THEN [ok |-> TRUE,
          fs |-> [fs EXCEPT ![targetDir].files = {f \in held : Included(includePath, f)}]]
    ELSE [ok |-> FALSE, fs |-> fs]

\* FsStatusInfo(FS_STATUS_START) from line 1931 on, the path resolved:
\* the directory is created and the session is left pending.
BatchStart(b, fs, repoPath, password, shortId, originalPath, rest, rnd) ==
    LET restoreSub == RestoreSub(shortId, rnd)
        stripped == IF rest # <<>> /\ rest[Len(rest)] = CH_BACKSLASH
                    THEN SubSeq(rest, 1, Len(rest) - 1) ELSE rest
    IN  [b |-> [active |-> FALSE, pending |-> TRUE, tempDir |-> restoreSub,
                resticPrefix |-> BuildLsSubpath(originalPath, stripped),
                repoPath |-> repoPath, password |-> password,
                snapshotPath |-> originalPath, shortId |-> shortId],
         fs |-> [fs EXCEPT ![restoreSub] = IF @.exists THEN @ ELSE EmptyDir]]

\* A faulty end, for comparison: the session is left as it is.
BatchEnd_Keep(b, fs) == [b |-> b, fs |-> fs]

\* FsStatusInfo(FS_STATUS_END), lines 1970-1977.
BatchEnd(b, fs) ==
    IF b.active \/ b.pending
    THEN [b |-> BatchZero,
          fs |-> IF b.tempDir # <<>> THEN DeleteDirectoryRecursive(fs, b.tempDir) ELSE fs]
    ELSE [b |-> b, fs |-> fs]

\* The batch restore part of FsDisconnect, lines 1865-1869.
BatchDisconnect(b, fs) ==
    IF b.active
    THEN [b |-> BatchZero, fs |-> DeleteDirectoryRecursive(fs, b.tempDir)]
    ELSE [b |-> b, fs |-> fs]

\* A faulty restore step, for comparison: the session stays pending after a
\* failed restore.
BatchRestoreStep_Retry(b, fs, run, held, resticPath) ==
    IF b.pending /\ ~b.active
    THEN LET r == RunResticRestore(fs, run, held,
                                   IncludePath(b.resticPrefix, resticPath), b.tempDir)
         IN  [b |-> [b EXCEPT !.pending = ~r.ok, !.active = r.ok],
              fs |-> r.fs, runs |-> <<"restore">>]
    ELSE [b |-> b, fs |-> fs, runs |-> <<>>]

\* A faulty restore step, for comparison: pending is not cleared.
BatchRestoreStep_KeepPending(b, fs, run, held, resticPath) ==
    IF b.pending /\ ~b.active
    THEN LET r == RunResticRestore(fs, run, held,
                                   IncludePath(b.resticPrefix, resticPath), b.tempDir)
         IN  [b |-> [b EXCEPT !.active = IF r.ok THEN TRUE ELSE @],
              fs |-> r.fs, runs |-> <<"restore">>]
    ELSE [b |-> b, fs |-> fs, runs |-> <<>>]

\* The deferred restore of FsGetFile, lines 1580-1621: [b, fs, runs].
BatchRestoreStep(b, fs, run, held, resticPath) ==
    IF b.pending /\ ~b.active
    THEN LET r == RunResticRestore(fs, run, held,
                                   IncludePath(b.resticPrefix, resticPath), b.tempDir)
         IN  [b |-> [b EXCEPT !.pending = FALSE, !.active = IF r.ok THEN TRUE ELSE @],
              fs |-> r.fs, runs |-> <<"restore">>]
    ELSE [b |-> b, fs |-> fs, runs |-> <<>>]

-----------------------------------------------------------------------------
(* The state every specification starts from: FsInit has run, nothing is     *)
(* cached, the databases are empty.                                          *)

None == "None"
MaxEntries == 2
MaxStoreCalls == 3

PathOf(names) ==
    LET RECURSIVE Join(_)
        Join(ns) == IF ns = <<>> THEN <<>> ELSE <<CH_SLASH>> \o Head(ns) \o Join(Tail(ns))
    IN  Join(names)

\* The values GetSecureRandomValue returns, as text, and the directories
\* FsStatusInfo can create with them.
RandomValues == {<<CH_1>>, <<CH_2>>}
TempDirNames == {RestoreSub(id, rnd) : id \in ShortIds, rnd \in RandomValues}

\* The host threads that can be inside FsGetFile at the same time, and a
\* thread that is in no call.
ThreadIds == {1, 2}
IdleThread == [pc |-> "idle"]

\* A destination file that does not exist, and one that holds the first
\* `chunks` chunks of the file dumped.
Absent == [exists |-> FALSE, chunks |-> 0]
Written(chunks) == [exists |-> TRUE, chunks |-> chunks]

IdleInit ==
    /\ now = 0
    /\ g_SnapCache = <<>>
    /\ g_LsCache = <<>>
    /\ g_Initialized = TRUE
    /\ cached_dirs = [r \in Repos |-> {}]
    /\ dir_entries = [r \in Repos |-> {}]
    /\ loadedSnaps = {}
    /\ hasPassword = [r \in Repos |-> TRUE]
    /\ last = [op |-> "none", n |-> 0]
    /\ g_BatchRestore = BatchZero
    /\ tempDirs = [d \in TempDirNames |-> NoDir]
    /\ threads = [t \in ThreadIds |-> IdleThread]
    /\ localFile = [t \in ThreadIds |-> Absent]
    /\ resticProc = [t \in ThreadIds |-> "none"]
    /\ g_Dbs = {}

-----------------------------------------------------------------------------
(* SpecStore: the public API of ls_cache.h called in any order.              *)

StorePaths == {PathOf(<<n>>) : n \in Names}
StoreKeys ==
    {k \in [repo : Repos, shortId : ShortIds, path : StorePaths] :
        k.repo = "r1" \/ k.path = PathOf(<< <<CH_a>> >>)}

\* The entries a caller stores: a directory or a file named a, a file named b.
StoreEntries ==
    {DirEntry(<<CH_a>>, 1, 0, 0, FileTime(7, 1)),
     DirEntry(<<CH_a>>, 0, 5, 2, FileTime(9, 1)),
     DirEntry(<<CH_b>>, 0, 5, 2, FileTime(9, 1))}

\* Arrays of at most MaxEntries entries with distinct names.
StoreArrays ==
    {a \in UNION {[1..n -> StoreEntries] : n \in 0..MaxEntries} :
        \A i, j \in 1..Len(a) : i # j => a[i].name # a[j].name}

InitStore ==
    /\ IdleInit
    /\ resticSnaps = [r \in Repos |-> {}]
    /\ resticTree = [r \in Repos |-> [s \in ShortIds |-> <<>>]]
    /\ shadow = [k \in StoreKeys |-> [stores |-> 0, cur |-> {}, prev |-> {}]]
    /\ lastFetch = [r \in Repos |-> None]

StoreCall(k, a) ==
    LET t == LsCache_Store(g_Initialized, cached_dirs[k.repo], dir_entries[k.repo],
                           k.repo, k.shortId, k.path, a, Len(a))
    IN  /\ last.n < MaxStoreCalls
        /\ cached_dirs' = [cached_dirs EXCEPT ![k.repo] = t.dirs]
        /\ dir_entries' = [dir_entries EXCEPT ![k.repo] = t.ents]
        /\ shadow' = [shadow EXCEPT ![k] = [stores |-> IF shadow[k].stores = 0 THEN 1 ELSE 2,
                                             cur |-> SeqToSet(a), prev |-> shadow[k].cur]]
        /\ last' = [op |-> "Store", n |-> last.n + 1, key |-> k]
        /\ UNCHANGED <<conc, batch, now, g_SnapCache, g_LsCache, g_Initialized, loadedSnaps,
                       hasPassword, resticSnaps, resticTree, lastFetch>>

LookupCall(k) ==
    /\ \E res \in LsCache_Lookup(g_Initialized, cached_dirs[k.repo], dir_entries[k.repo],
                                 k.repo, k.shortId, k.path) :
          last' = [op |-> "Lookup", n |-> last.n, key |-> k, res |-> res]
    /\ UNCHANGED <<conc, batch, now, g_SnapCache, g_LsCache, g_Initialized, cached_dirs, dir_entries,
                   loadedSnaps, hasPassword, resticSnaps, resticTree, shadow, lastFetch>>

NextStore ==
    \/ \E k \in StoreKeys, a \in StoreArrays : StoreCall(k, a)
    \/ \E k \in StoreKeys : LookupCall(k)

SpecStore == InitStore /\ [][NextStore]_vars

\* C4: store(key, E) with E non-empty and of distinct names, then lookup(key):
\* a non-empty hit whose entries are exactly the set E.
C4_StoreThenLookup ==
    (last.op = "Lookup" /\ shadow[last.key].stores > 0 /\ shadow[last.key].cur # {})
        => /\ CallerState(last.res) = "nonemptyHit"
           /\ SeqToSet(last.res.entries) = shadow[last.key].cur
           /\ last.res.outCount = Cardinality(shadow[last.key].cur)

\* C5: lookup of a key never stored is unknown; lookup after store(key, []) is
\* an empty hit with zero entries, which the caller tells from unknown.
C5_TriState ==
    last.op = "Lookup" =>
        /\ shadow[last.key].stores = 0 => CallerState(last.res) = "unknown"
        /\ (shadow[last.key].stores > 0 /\ shadow[last.key].cur = {}) =>
              (CallerState(last.res) = "emptyHit" /\ last.res.outCount = 0)

\* C6: store(key, E2) after store(key, E1) replaces the record: the next
\* lookup(key) returns exactly E2 and no child of E1 that is not in E2.
C6_StoreReplaces ==
    (last.op = "Lookup" /\ shadow[last.key].stores = 2)
        => /\ SeqToSet(last.res.entries) = shadow[last.key].cur
           /\ SeqToSet(last.res.entries) \cap (shadow[last.key].prev \ shadow[last.key].cur) = {}

-----------------------------------------------------------------------------
(* SpecIngest: BulkCacheSubdirectories run on the recursive listing of a     *)
(* snapshot.  A snapshot is immutable: its listing is fixed at Init.         *)

MaxIngests == 2

\* The nodes a snapshot may hold, as sequences of names: /a, /b, /a/a, /a/b.
Nodes == {<< <<CH_a>> >>, << <<CH_b>> >>, << <<CH_a>>, <<CH_a>> >>, << <<CH_a>>, <<CH_b>> >>}

\* A snapshot: the type of each node, every present node lying in a directory.
TreeKinds ==
    {k \in [Nodes -> {"absent", "file", "dir"}] :
        \A n \in Nodes : (Len(n) > 1 /\ k[n] # "absent") => k[SubSeq(n, 1, Len(n) - 1)] = "dir"}

\* The line restic ls --json prints for a node.  The file /b carries no mtime.
EntryOf(n, type) ==
    ResticLsEntry(n[Len(n)], PathOf(n), type,
                  IF type = "file" THEN 5 ELSE 0, 0,
                  IF type = "dir" THEN MTime(6, 1601, 1, 1, 0, 1, 9)
                  ELSE IF n = << <<CH_b>> >> THEN MTime(0, 0, 0, 0, 0, 0, 0)
                  ELSE MTime(6, 1601, 1, 1, 0, 0, 7))

\* ParseLsOutputAll on the output of restic ls --json: one entry per node, in
\* the order of the lines (by path).
ParseLsOutputAll(k) ==
    LET present == {n \in Nodes : k[n] # "absent"}
        c == Cardinality(present)
        order == CHOOSE f \in [1..c -> present] :
                    \A i, j \in 1..c : i < j => strcmp(PathOf(f[i]), PathOf(f[j])) < 0
    IN  [i \in 1..c |-> EntryOf(order[i], k[order[i]])]

Listings == {ParseLsOutputAll(k) : k \in TreeKinds}
SmallListings == {l \in Listings : Len(l) <= 1}

IngestPaths == {<<CH_SLASH>>} \cup {PathOf(n) : n \in Nodes}

InitIngest ==
    /\ IdleInit
    /\ resticSnaps = [r \in Repos |-> {}]
    /\ resticTree \in [Repos -> [ShortIds -> Listings]]
    /\ \A s \in ShortIds : resticTree["r2"][s] \in SmallListings
    /\ shadow = [r \in Repos |-> [s \in ShortIds |-> 0]]
    /\ lastFetch = [r \in Repos |-> None]

\* One run of BulkCacheSubdirectories on the listing of snapshot s of r.
IngestCall(r, s, requestedPathUtf8) ==
    /\ last.n < MaxIngests
    /\ \E t \in BulkCacheSubdirectories(g_Initialized, cached_dirs[r], dir_entries[r],
                                         r, s, requestedPathUtf8, resticTree[r][s]) :
          /\ cached_dirs' = [cached_dirs EXCEPT ![r] = t.dirs]
          /\ dir_entries' = [dir_entries EXCEPT ![r] = t.ents]
          /\ last' = [op |-> "Ingest", n |-> last.n + 1, repo |-> r, shortId |-> s,
                      path |-> requestedPathUtf8,
                      before |-> [dirs |-> cached_dirs[r], ents |-> dir_entries[r]],
                      outDirectChildren |-> t.outDirectChildren,
                      outDirectCount |-> t.outDirectCount]
    /\ shadow' = [shadow EXCEPT ![r][s] = @ + 1]
    /\ UNCHANGED <<conc, batch, now, g_SnapCache, g_LsCache, g_Initialized, loadedSnaps,
                   hasPassword, resticSnaps, resticTree, lastFetch>>

NextIngest ==
    \/ \E r \in Repos, s \in ShortIds, p \in IngestPaths : IngestCall(r, s, p)
    \/ \E r \in Repos, s \in ShortIds, p \in IngestPaths :
          LookupCall([repo |-> r, shortId |-> s, path |-> p])

SpecIngest == InitIngest /\ [][NextIngest]_vars

\* The entries of listing l that lie directly in directory p, as the
\* DirEntry records the host is shown.
ChildrenIn(l, p) ==
    {ToDirEntry(l[i]) : i \in {j \in 1..Len(l) :
        IF Len(l[j].path) > Len(p) /\ p # <<CH_SLASH>>
        THEN SubSeq(l[j].path, 1, Len(p) + 1) = p \o <<CH_SLASH>>
             /\ strchr(SubSeq(l[j].path, Len(p) + 2, Len(l[j].path)), CH_SLASH) = 0
        ELSE p = <<CH_SLASH>> /\ strrchr(l[j].path, CH_SLASH) = 1}}

\* The snapshots BulkCacheSubdirectories has run on.
Ingested == {rs \in Repos \X ShortIds : shadow[rs[1]][rs[2]] > 0}

\* C7: after ingest of listing L, every path P that is the parent of at least
\* one entry of L has a non-empty hit holding exactly the entries of L that
\* lie directly in P.
C7_IngestPopulatesEveryParent ==
    \A rs \in Ingested : \A p \in IngestPaths :
        LET l == resticTree[rs[1]][rs[2]]
        IN  ChildrenIn(l, p) # {} =>
              \A res \in LsCache_Lookup(g_Initialized, cached_dirs[rs[1]], dir_entries[rs[1]],
                                        rs[1], rs[2], p) :
                  /\ CallerState(res) = "nonemptyHit"
                  /\ SeqToSet(res.entries) = ChildrenIn(l, p)
                  /\ res.outCount = Cardinality(ChildrenIn(l, p))

\* C7 witness: an ingest has run with a requested path other than a parent
\* path P of the listing, and P has children.
C7_Witness ==
    /\ last.op = "Ingest"
    /\ \E p \in IngestPaths :
          /\ p # last.path
          /\ p # <<CH_SLASH>>
          /\ ChildrenIn(resticTree[last.repo][last.shortId], p) # {}

\* C8: after ingest of listing L, a directory of L that is the parent of no
\* entry of L has a sentinel with zero children, and a directory with a child
\* in L has no zero-children sentinel.
C8_LeafDirectoriesKnownEmpty ==
    \A rs \in Ingested :
        LET l == resticTree[rs[1]][rs[2]]
            zero(p) == [short_id |-> rs[2], path |-> p, entry_count |-> 0] \in cached_dirs[rs[1]]
        IN  \A i \in 1..Len(l) : l[i].type = "dir" =>
                /\ ChildrenIn(l, l[i].path) = {} =>
                      /\ zero(l[i].path)
                      /\ {r \in dir_entries[rs[1]] : r.short_id = rs[2] /\ r.path = l[i].path} = {}
                /\ ChildrenIn(l, l[i].path) # {} => ~zero(l[i].path)

\* C8 witness: the ingested listing holds a directory without children and a
\* directory with children.
C8_Witness ==
    /\ last.op = "Ingest"
    /\ LET l == resticTree[last.repo][last.shortId]
       IN  /\ \E i \in 1..Len(l) : l[i].type = "dir" /\ ChildrenIn(l, l[i].path) = {}
           /\ \E i \in 1..Len(l) : l[i].type = "dir" /\ ChildrenIn(l, l[i].path) # {}

\* C10: a second ingest of the same repository, snapshot and listing leaves
\* both tables as the first left them: the same keys, the same children.
C10_IngestIdempotent ==
    (last.op = "Ingest" /\ shadow[last.repo][last.shortId] >= 2)
        => /\ cached_dirs[last.repo] = last.before.dirs
           /\ dir_entries[last.repo] = last.before.ents

\* C10 witness: the second ingest of a listing with a populated directory and
\* an empty one has run.
C10_Witness ==
    /\ last.op = "Ingest"
    /\ shadow[last.repo][last.shortId] >= 2
    /\ \E r \in cached_dirs[last.repo] : r.entry_count = 0
    /\ \E r \in cached_dirs[last.repo] : r.entry_count = 2

-----------------------------------------------------------------------------
(* Spec: the host browses the virtual namespace while time passes and the    *)
(* repositories change.                                                      *)

MaxCalls == 3
TickMs == 150000
MaxTime == 300000

\* The snapshots a repository can hold: both back up /a.
Snap1 == ResticSnapshot(<<CH_1>>, <<CH_1>>, <<PathOf(<< <<CH_a>> >>)>>)
Snap2 == ResticSnapshot(<<CH_2>>, <<CH_2>>, <<PathOf(<< <<CH_a>> >>)>>)
AllSnaps == {Snap1, Snap2}
AllIds == {sn.shortId : sn \in AllSnaps}

\* The remainders of a path below a snapshot folder: none, or the folder a.
Subpaths == {<<>>, <<CH_a>>}

\* Listings of a snapshot of /a: empty, or /a with /a/a absent, a file or a
\* directory.
MainListings ==
    {l \in Listings : \A i \in 1..Len(l) : l[i].path \in {PathOf(<< <<CH_a>> >>),
                                                          PathOf(<< <<CH_a>>, <<CH_a>> >>)}}
LeafListing == ParseLsOutputAll([n \in Nodes |-> IF n = << <<CH_a>> >> THEN "dir" ELSE "absent"])
FileListing ==
    ParseLsOutputAll([n \in Nodes |-> IF n = << <<CH_a>> >> THEN "dir"
                                      ELSE IF n = << <<CH_a>>, <<CH_a>> >> THEN "file"
                                      ELSE "absent"])

NeverFetched == [called |-> FALSE, at |-> 0, snapshots |-> <<>>,
                 valid |-> FALSE, goodAt |-> 0, good |-> <<>>]

Init ==
    /\ IdleInit
    /\ resticSnaps = [r \in Repos |-> {Snap1}]
    /\ resticTree \in [Repos -> [AllIds -> MainListings]]
    /\ resticTree["r2"][Snap1.shortId] = FileListing
    /\ \A r \in Repos : resticTree[r][Snap2.shortId] = LeafListing
    /\ shadow = [r \in Repos |-> [s \in AllIds |-> 0]]
    /\ lastFetch = [r \in Repos |-> NeverFetched]

St(r) == [now |-> now, snapCache |-> g_SnapCache, lsCache |-> g_LsCache,
          init |-> g_Initialized, dirs |-> cached_dirs[r], ents |-> dir_entries[r],
          loaded |-> loadedSnaps, hasPassword |-> hasPassword[r]]

Env(r, runSnapshots, runLs) ==
    [runSnapshots |-> runSnapshots, json |-> resticSnaps[r],
     runLs |-> runLs, tree |-> resticTree[r]]

\* What is expected of the snapshot cache of a repository after a call of
\* FetchSnapshots at time t that returned `snapshots`, given what was expected
\* before (prev): a list fetched less than the TTL ago and not dropped since
\* is served; otherwise the backend is asked, and its list is kept when the
\* run succeeded with at least one snapshot.
ObserveFetch(prev, t, run, json, snapshots) ==
    LET served == prev.valid /\ t - prev.goodAt < SNAPSHOT_CACHE_TTL_MS
        kept == run = "ok" /\ json # {}
    IN  [called |-> TRUE, at |-> t, snapshots |-> snapshots,
         valid |-> served \/ kept,
         goodAt |-> IF served THEN prev.goodAt ELSE IF kept THEN t ELSE 0,
         good |-> IF served THEN prev.good ELSE IF kept THEN snapshots ELSE <<>>]

Dropped(prev) == [prev EXCEPT !.valid = FALSE, !.goodAt = 0, !.good = <<>>]

Tick ==
    /\ now + TickMs <= MaxTime
    /\ now' = now + TickMs
    /\ UNCHANGED <<conc, batch, g_SnapCache, g_LsCache, g_Initialized, cached_dirs, dir_entries,
                   loadedSnaps, hasPassword, resticSnaps, resticTree, last, shadow, lastFetch>>

\* restic backup run outside the plugin: r1 gains a second snapshot.
Backup ==
    /\ resticSnaps["r1"] = {Snap1}
    /\ resticSnaps' = [resticSnaps EXCEPT !["r1"] = {Snap1, Snap2}]
    /\ UNCHANGED <<conc, batch, now, g_SnapCache, g_LsCache, g_Initialized, cached_dirs, dir_entries,
                   loadedSnaps, hasPassword, resticTree, last, shadow, lastFetch>>

\* The host cancelled the password prompt: GetEntriesForPath returns nothing.
Cancelled(r) ==
    /\ last' = [op |-> "Cancelled", n |-> last.n + 1, repo |-> r]
    /\ UNCHANGED <<conc, batch, now, g_SnapCache, g_LsCache, g_Initialized, cached_dirs, dir_entries,
                   loadedSnaps, hasPassword, resticSnaps, resticTree, shadow, lastFetch>>

\* GetEntriesForPath on \r or \r\path: the password, then FetchSnapshots.
ListSnapshots(r, entered, run) ==
    /\ last.n < MaxCalls
    /\ LET pw == RepoStore_EnsurePassword(hasPassword[r], entered)
       IN  IF ~pw.ok THEN Cancelled(r)
           ELSE \E f \in FetchSnapshots(now, g_SnapCache, g_Initialized, cached_dirs[r],
                                        dir_entries[r], pw.hasPassword, r, run, resticSnaps[r]) :
                  /\ g_SnapCache' = f.cache
                  /\ hasPassword' = [hasPassword EXCEPT ![r] = f.hasPassword]
                  /\ cached_dirs' = [cached_dirs EXCEPT ![r] = f.dirs]
                  /\ dir_entries' = [dir_entries EXCEPT ![r] = f.ents]
                  /\ lastFetch' = [lastFetch EXCEPT ![r] =
                                      ObserveFetch(@, now, run, resticSnaps[r], f.snapshots)]
                  /\ last' = [op |-> "FetchSnapshots", n |-> last.n + 1, repo |-> r, at |-> now,
                              fetched |-> [called |-> TRUE, numSnaps |-> f.numSnaps,
                                           snapshots |-> f.snapshots, runs |-> f.runs],
                              prev |-> lastFetch[r],
                              run |-> IF f.runs = <<>> THEN "none" ELSE run]
                  /\ UNCHANGED <<conc, batch, now, g_LsCache, g_Initialized, loadedSnaps,
                                 resticSnaps, resticTree, shadow>>

\* GetEntriesForPath on \r\path\snapshot\subpath: the password, then
\* GetSnapshotContents.  displayName is the snapshot's name as listed, or a
\* name without a short id.
ListDirectory(r, sn, displayName, subpath, entered, runSnapshots, runLs) ==
    /\ last.n < MaxCalls
    /\ LET pw == RepoStore_EnsurePassword(hasPassword[r], entered)
           path == BuildLsSubpath(sn.paths[1], subpath)
           sentinel == {d \in cached_dirs[r] : d.short_id = sn.shortId /\ d.path = path}
           children == {e \in dir_entries[r] : e.short_id = sn.shortId /\ e.path = path}
           inMemory == \E i \in 1..Len(g_LsCache) :
                          g_LsCache[i].shortId = sn.shortId /\ g_LsCache[i].path = path
           listed(o) == /\ runLs = "ok" /\ "ls" \in SeqToSet(o.runs)
                        /\ sn \in resticSnaps[r]
                        /\ Len(resticTree[r][sn.shortId]) > 0
           pre == [knownEmpty |-> sentinel # {} /\ children = {}
                                  /\ \A d \in sentinel : d.entry_count = 0,
                   sentinel |-> sentinel # {},
                   inMemory |-> inMemory,
                   loaded |-> <<r, sn.shortId>> \in loadedSnaps]
       IN  IF ~pw.ok THEN Cancelled(r)
           ELSE \E o \in GetSnapshotContents([St(r) EXCEPT !.hasPassword = pw.hasPassword],
                                             Env(r, runSnapshots, runLs), r,
                                             SanitizePath(sn.paths[1]), displayName, subpath) :
                  /\ g_SnapCache' = o.st.snapCache
                  /\ g_LsCache' = o.st.lsCache
                  /\ hasPassword' = [hasPassword EXCEPT ![r] = o.st.hasPassword]
                  /\ cached_dirs' = [cached_dirs EXCEPT ![r] = o.st.dirs]
                  /\ dir_entries' = [dir_entries EXCEPT ![r] = o.st.ents]
                  /\ loadedSnaps' = o.st.loaded
                  /\ lastFetch' = [lastFetch EXCEPT ![r] =
                                      IF o.fetched.called
                                      THEN ObserveFetch(@, now, runSnapshots, resticSnaps[r],
                                                        o.fetched.snapshots)
                                      ELSE @]
                  /\ shadow' = [shadow EXCEPT ![r][sn.shortId] = IF listed(o) THEN @ + 1 ELSE @]
                  /\ last' = [op |-> "GetSnapshotContents", n |-> last.n + 1, repo |-> r,
                              at |-> now, shortId |-> sn.shortId, path |-> path,
                              named |-> displayName = DisplayName(sn),
                              entries |-> o.entries, outCount |-> o.outCount,
                              runs |-> o.runs, fetched |-> o.fetched,
                              prev |-> lastFetch[r], pre |-> pre,
                              listed |-> listed(o)]
                  /\ UNCHANGED <<conc, batch, now, g_Initialized, resticSnaps, resticTree>>

\* FsExecuteFile "open" on [Refresh snapshot list] of repository r.
RefreshSnapshotList(r) ==
    /\ last.n < MaxCalls
    /\ g_SnapCache' = InvalidateSnapshotCache(g_SnapCache, r)
    /\ lastFetch' = [lastFetch EXCEPT ![r] = Dropped(@)]
    /\ last' = [op |-> "Refresh", n |-> last.n + 1, repo |-> r]
    /\ UNCHANGED <<conc, batch, now, g_LsCache, g_Initialized, cached_dirs, dir_entries, loadedSnaps,
                   hasPassword, resticSnaps, resticTree, shadow>>

\* FsDisconnect: both in-memory caches and the passwords are dropped and the
\* persistent cache is shut down.
FsDisconnect ==
    /\ last.n < MaxCalls
    /\ g_SnapCache' = <<>>
    /\ g_LsCache' = <<>>
    /\ hasPassword' = [r \in Repos |-> FALSE]
    /\ g_Initialized' = FALSE
    /\ lastFetch' = [r \in Repos |-> Dropped(lastFetch[r])]
    /\ last' = [op |-> "FsDisconnect", n |-> last.n + 1]
    /\ g_BatchRestore' = BatchDisconnect(g_BatchRestore, DeleteTempDir(tempDirs)).b
    /\ tempDirs' = BatchDisconnect(g_BatchRestore, DeleteTempDir(tempDirs)).fs
    /\ UNCHANGED <<conc, now, cached_dirs, dir_entries, loadedSnaps, resticSnaps, resticTree, shadow>>

\* The directories the host asks for: /a of the first snapshot in both
\* repositories, /a/a in r1, /a of r1's second snapshot, and a snapshot folder
\* whose name holds no short id.
Requests ==
    {[repo |-> "r1", sn |-> Snap1, displayName |-> DisplayName(Snap1), subpath |-> <<>>],
     [repo |-> "r1", sn |-> Snap1, displayName |-> DisplayName(Snap1), subpath |-> <<CH_a>>],
     [repo |-> "r2", sn |-> Snap1, displayName |-> DisplayName(Snap1), subpath |-> <<>>],
     [repo |-> "r1", sn |-> Snap2, displayName |-> DisplayName(Snap2), subpath |-> <<>>],
     [repo |-> "r1", sn |-> Snap1, displayName |-> Snap1.time, subpath |-> <<>>]}

\* What the backend answers to the commands of one request:
\* <<snapshots --json, ls --json>>.
Backends == {<<"ok", "ok">>, <<"ok", "failed">>, <<"ok", "norun">>,
             <<"failed", "ok">>, <<"norun", "ok">>}

Next ==
    \/ Tick
    \/ Backup
    \/ \E r \in Repos, entered \in BOOLEAN, run \in RunOutcomes :
          (hasPassword[r] => entered) /\ ListSnapshots(r, entered, run)
    \/ \E q \in Requests, entered \in BOOLEAN, b \in Backends :
          /\ hasPassword[q.repo] => entered
          /\ ListDirectory(q.repo, q.sn, q.displayName, q.subpath, entered, b[1], b[2])
    \/ \E r \in Repos : RefreshSnapshotList(r)
    \/ FsDisconnect

Spec == Init /\ [][Next]_vars

\* The calls of GetSnapshotContents and of FetchSnapshots the host has just made.
IsListing == last.op = "GetSnapshotContents"
IsFetch == last.op \in {"GetSnapshotContents", "FetchSnapshots"} /\ last.fetched.called
RanLs == "ls" \in SeqToSet(last.runs)
NoRecord == ~last.pre.sentinel /\ ~last.pre.inMemory

\* C1: a request that resolves to (snapshot, path) with a known-empty
\* persistent record returns an empty listing and runs no backend listing;
\* with no record in either tier, in a snapshot not marked loaded, it runs the
\* backend listing.
C1_KnownEmptyVsUnknown ==
    (IsListing /\ last.named /\ last.fetched.numSnaps > 0) =>
        /\ last.pre.knownEmpty => (last.outCount = 0 /\ ~RanLs)
        /\ (NoRecord /\ ~last.pre.loaded) => RanLs

\* C2 as stated: once the snapshot is marked loaded, a request for a path with
\* no cache record returns an empty result and runs no backend command.
C2_LoadedMeansNoBackend ==
    (IsListing /\ last.pre.loaded /\ NoRecord) => (last.outCount = 0 /\ last.runs = <<>>)

\* C2 amended: once the snapshot is marked loaded, a request for a path with
\* no record in either tier returns an empty result and runs no backend
\* listing; it runs at most the snapshot-list query, and only when the
\* repository's snapshot list is not served from the snapshot cache.
C2_LoadedMeansNoListing ==
    (IsListing /\ last.pre.loaded /\ NoRecord) =>
        /\ last.outCount = 0
        /\ last.entries = <<>>
        /\ ~RanLs
        /\ last.runs \in {<<>>, <<"snapshots">>}
        /\ last.runs = <<"snapshots">> =>
              ~(last.prev.valid /\ last.at - last.prev.goodAt < SNAPSHOT_CACHE_TTL_MS)

\* C2 witness: a resolved request for a path without record in a loaded
\* snapshot was answered from the caches alone.
C2_Witness ==
    /\ IsListing /\ last.pre.loaded /\ NoRecord
    /\ last.named /\ last.fetched.numSnaps > 0
    /\ last.runs = <<>>

\* C3 as stated: a call of FetchSnapshots less than 300000 ms after the
\* previous call for the repository returns the previous result and runs no
\* backend command; a call 300000 ms or more after it runs the backend once.
C3_TtlFromPreviousCall ==
    (IsFetch /\ last.prev.called) =>
        IF last.at - last.prev.at < SNAPSHOT_CACHE_TTL_MS
        THEN last.fetched.runs = <<>> /\ last.fetched.snapshots = last.prev.snapshots
        ELSE last.fetched.runs = <<"snapshots">>

\* C3 amended: a call of FetchSnapshots returns the list of the last backend
\* fetch that yielded at least one snapshot, and runs no backend command, when
\* that fetch is less than 300000 ms old and its entry has not been dropped
\* since; otherwise it runs the backend snapshot query exactly once.
C3_TtlFromLastFetch ==
    IsFetch =>
        IF last.prev.valid /\ last.at - last.prev.goodAt < SNAPSHOT_CACHE_TTL_MS
        THEN last.fetched.runs = <<>> /\ last.fetched.snapshots = last.prev.good
                /\ last.fetched.numSnaps = Len(last.prev.good)
        ELSE last.fetched.runs = <<"snapshots">>

\* C3 witness: a list fetched earlier was served although the repository has
\* changed since.
C3_Witness ==
    /\ IsFetch
    /\ last.fetched.runs = <<>>
    /\ last.at > last.prev.goodAt
    /\ SeqToSet(last.fetched.snapshots) # resticSnaps[last.repo]

\* C9: after the ingestion of a listing obtained from the backend, the
\* snapshot is marked loaded.
C9_LoadedAfterIngest ==
    \A r \in Repos, s \in AllIds :
        shadow[r][s] > 0 => LsCache_IsSnapshotLoaded(loadedSnaps, r, s)

\* C9 witness: a listing was ingested that holds no child of the requested
\* path.
C9_Witness ==
    IsListing /\ last.listed /\ last.outCount = 0

-----------------------------------------------------------------------------
(* SpecTxn: LsCache_Store and LsCache_Purge with failing SQL statements.     *)
(* The tables of the model are the committed ones: what a statement outside  *)
(* the storing transaction reads.                                            *)

MaxTxnCalls == 3

TxnIds == {<<CH_1>>, <<CH_2>>}
TxnKeys == [repo : {"r1"}, shortId : TxnIds, path : StorePaths]

\* The lists of valid short ids a purge is called with (never empty here; the
\* empty list returns at once).
TxnValidLists == {<< <<CH_1>> >>, << <<CH_2>> >>, << <<CH_1>>, <<CH_2>> >>}

\* The row of dir_entries that the INSERT of entry e under key k binds.
ChildRow(k, e) ==
    [short_id |-> k.shortId, path |-> k.path, name |-> e.name, is_dir |-> e.isDirectory,
     size_low |-> e.fileSizeLow, size_high |-> e.fileSizeHigh,
     mtime_low |-> e.lastWriteTime.dwLowDateTime,
     mtime_high |-> e.lastWriteTime.dwHighDateTime]

InitTxn ==
    /\ IdleInit
    /\ resticSnaps = [r \in Repos |-> {}]
    /\ resticTree = [r \in Repos |-> [s \in ShortIds |-> <<>>]]
    /\ shadow = [k \in TxnKeys |-> [written |-> {}, purged |-> FALSE]]
    /\ lastFetch = [r \in Repos |-> None]

\* LsCache_Store(k, a) in which statement failAt fails.  shadow[k].written is
\* the child rows of the last store of k that committed.
TxnStore(k, a, failAt) ==
    LET t == LsCache_StoreSteps(g_Initialized, cached_dirs[k.repo], dir_entries[k.repo],
                                k.repo, k.shortId, k.path, a, Len(a), failAt)
        committed == failAt = NoStoreFault(Len(a))
    IN  /\ last.n < MaxTxnCalls
        /\ cached_dirs' = [cached_dirs EXCEPT ![k.repo] = t.dirs]
        /\ dir_entries' = [dir_entries EXCEPT ![k.repo] = t.ents]
        /\ shadow' = IF committed
                     THEN [shadow EXCEPT ![k] = [written |-> {ChildRow(k, a[i]) : i \in 1..Len(a)},
                                                 purged |-> FALSE]]
                     ELSE shadow
        /\ last' = [op |-> "Store", n |-> last.n + 1, key |-> k, entries |-> a,
                    count |-> Len(a), failAt |-> failAt,
                    pre |-> [dirs |-> cached_dirs[k.repo], ents |-> dir_entries[k.repo]],
                    mid |-> [dirs |-> t.dirs, ents |-> t.ents]]
        /\ UNCHANGED <<conc, batch, now, g_SnapCache, g_LsCache, g_Initialized, loadedSnaps,
                       hasPassword, resticSnaps, resticTree, lastFetch>>

\* LsCache_Purge(r, valid) in which each DELETE succeeds or not.  last.mid is
\* the committed state between the two statements.
TxnPurge(r, validShortIds, okEntries, okDirs) ==
    LET n == Len(validShortIds)
        first == LsCache_PurgeSteps(g_Initialized, cached_dirs[r], dir_entries[r], r,
                                    validShortIds, n, okEntries, FALSE)
        t == LsCache_PurgeSteps(g_Initialized, cached_dirs[r], dir_entries[r], r,
                                validShortIds, n, okEntries, okDirs)
    IN  /\ last.n < MaxTxnCalls
        /\ cached_dirs' = [cached_dirs EXCEPT ![r] = t.dirs]
        /\ dir_entries' = [dir_entries EXCEPT ![r] = t.ents]
        /\ shadow' = [k \in TxnKeys |->
                        IF k.repo = r /\ k.shortId \notin SeqToSet(validShortIds)
                        THEN [shadow[k] EXCEPT !.purged = TRUE]
                        ELSE shadow[k]]
        /\ last' = [op |-> "Purge", n |-> last.n + 1, key |-> None, entries |-> <<>>,
                    count |-> n, failAt |-> 0,
                    pre |-> [dirs |-> cached_dirs[r], ents |-> dir_entries[r]],
                    mid |-> first]
        /\ UNCHANGED <<conc, batch, now, g_SnapCache, g_LsCache, g_Initialized, loadedSnaps,
                       hasPassword, resticSnaps, resticTree, lastFetch>>

NextTxn ==
    \/ \E k \in TxnKeys, a \in StoreArrays, failAt \in 0..(MaxEntries + 2) :
          failAt \in StoreFaults(Len(a)) /\ TxnStore(k, a, failAt)
    \/ \E v \in TxnValidLists, okEntries, okDirs \in BOOLEAN :
          TxnPurge("r1", v, okEntries, okDirs)

SpecTxn == InitTxn /\ [][NextTxn]_vars

\* The committed states of r1's database a reader can have seen since the last
\* call began: the one between the statements of the call, and the one now.
TxnObservable ==
    {[dirs |-> cached_dirs["r1"], ents |-> dir_entries["r1"]]}
        \cup (IF last.op \in {"Store", "Purge"} THEN {last.mid} ELSE {})

HasSentinel(db, k) == \E r \in db.dirs : r.short_id = k.shortId /\ r.path = k.path

ChildrenOf(db, k) == {r \in db.ents : r.short_id = k.shortId /\ r.path = k.path}

\* A store that failed leaves both tables as they were when it began.
FailedStoreChangesNothing ==
    (last.op = "Store" /\ last.failAt # NoStoreFault(last.count))
        => /\ cached_dirs[last.key.repo] = last.pre.dirs
           /\ dir_entries[last.key.repo] = last.pre.ents

\* C11 (as stated): in every state a reader can observe, the sentinel row of a
\* key is accompanied by all the child rows written by the store that wrote
\* it; a store that fails partway leaves the rows as they were before it.
C11_StoreAtomic ==
    /\ \A db \in TxnObservable : \A k \in TxnKeys :
          HasSentinel(db, k) => shadow[k].written \subseteq db.ents
    /\ FailedStoreChangesNothing

\* C11 (amended): the sentinel row of a key is accompanied by all the child
\* rows of the store that wrote it, except that a purge naming a list without
\* the key's snapshot can have deleted every child row of the key and left the
\* sentinel, which a lookup reports as a miss; a store that fails partway
\* leaves both tables as they were before it.
C11_StoreAtomicPurgeApart ==
    /\ \A db \in TxnObservable : \A k \in TxnKeys :
          HasSentinel(db, k) =>
              \/ shadow[k].written \subseteq db.ents
              \/ /\ shadow[k].purged
                 /\ ChildrenOf(db, k) = {}
                 /\ LsCache_Lookup(g_Initialized, db.dirs, db.ents,
                                   k.repo, k.shortId, k.path) = {LookupMiss}
    /\ FailedStoreChangesNothing

\* A store over an existing record failed after at least one INSERT of a new
\* child had been made.
C11_Witness ==
    /\ last.op = "Store"
    /\ last.failAt \in 2..(last.count + 1)
    /\ HasSentinel(last.pre, last.key)
    /\ shadow[last.key].written # {}
    /\ ChildRow(last.key, last.entries[1]) \notin last.pre.ents

-----------------------------------------------------------------------------
(* wfx_interface.c: the [All Files] view, GetAllFilesContents                *)

\* "[versions] "
VERSION_PREFIX == <<91, 118, 101, 114, 115, 105, 111, 110, 115, 93, 32>>
VERSION_PREFIX_LEN == 11

\* strncmp: strcmp of the first n characters of both strings.
strncmp(a, b, n) ==
    strcmp(SubSeq(a, 1, IF Len(a) < n THEN Len(a) ELSE n),
           SubSeq(b, 1, IF Len(b) < n THEN Len(b) ELSE n))

HasVersionPrefix(name) == strncmp(name, VERSION_PREFIX, VERSION_PREFIX_LEN) = 0

StripVersionPrefix(name) ==
    IF HasVersionPrefix(name) THEN SubSeq(name, VERSION_PREFIX_LEN + 1, Len(name)) ELSE name

\* AddEntry: the array with one more entry (realloc is taken to succeed).
AddEntry(entries, name, isDir, sizeLow, sizeHigh, ft) ==
    Append(entries, DirEntry(name, isDir, sizeLow, sizeHigh, ft))

\* A faulty placeholder name, for comparison: the file name itself.
PlaceholderName_Bare(baseName) == baseName

\* Line 1024: snprintf(prefixedName, MAX_PATH, "%s%s", VERSION_PREFIX, baseName).
PlaceholderName(baseName) == VERSION_PREFIX \o baseName

\* Lines 1002-1031: the entries of one snapshot merged into the result.
RECURSIVE MergeSnapshot(_, _, _)
MergeSnapshot(entries, snapEntries, snapCount) ==
    IF snapCount = 0 THEN entries
    ELSE LET sofar == MergeSnapshot(entries, snapEntries, snapCount - 1)
             e == snapEntries[snapCount]
             baseName == e.name
             duplicate == \E m \in 1..Len(sofar) :
                             strcmp(StripVersionPrefix(sofar[m].name), baseName) = 0
         IN  IF duplicate THEN sofar
             ELSE IF e.isDirectory # 0
             THEN AddEntry(sofar, baseName, 1, 0, 0, e.lastWriteTime)
             ELSE AddEntry(sofar, PlaceholderName(baseName), 1,
                           e.fileSizeLow, e.fileSizeHigh, e.lastWriteTime)

\* The loop of GetAllFilesContents over snapshots[i..numSnaps], newest first.
\* acc is [entries, got, runs]: the merged entries, what GetSnapshotContents
\* returned for each matching snapshot so far, and the restic commands run.
RECURSIVE MergeLoop(_, _, _, _, _, _, _, _)
MergeLoop(st, env, repoName, sanitizedPath, subpath, snapshots, i, acc) ==
    IF i > Len(snapshots)
    THEN {[st |-> st, entries |-> acc.entries, outCount |-> Len(acc.entries),
           got |-> acc.got, runs |-> acc.runs]}
    ELSE LET sn == snapshots[i]
             matches == \E j \in 1..Len(sn.paths) :
                           strcmp(SanitizePath(sn.paths[j]), sanitizedPath) = 0
         IN  IF ~matches
             THEN MergeLoop(st, env, repoName, sanitizedPath, subpath, snapshots, i + 1, acc)
             ELSE UNION {MergeLoop(g.st, env, repoName, sanitizedPath, subpath, snapshots, i + 1,
                                   [entries |-> IF g.entries = <<>> \/ g.outCount = 0
                                                THEN acc.entries
                                                ELSE MergeSnapshot(acc.entries, g.entries, g.outCount),
                                    got |-> Append(acc.got, [shortId |-> sn.shortId,
                                                             entries |-> g.entries]),
                                    runs |-> acc.runs \o g.runs])
                         : g \in GetSnapshotContents(st, env, repoName, sanitizedPath,
                                                     DisplayName(sn), subpath)}

\* GetAllFilesContents: the set of outcomes [st, entries, outCount, got, runs]
\* of one call.
GetAllFilesContents(st, env, repoName, sanitizedPath, subpath) ==
    UNION {IF f.numSnaps = 0
           THEN {[st |-> [st EXCEPT !.snapCache = f.cache, !.hasPassword = f.hasPassword,
                                    !.dirs = f.dirs, !.ents = f.ents],
                  entries |-> <<>>, outCount |-> 0, got |-> <<>>, runs |-> f.runs]}
           ELSE MergeLoop([st EXCEPT !.snapCache = f.cache, !.hasPassword = f.hasPassword,
                                     !.dirs = f.dirs, !.ents = f.ents],
                          env, repoName, sanitizedPath, subpath, f.snapshots, 1,
                          [entries |-> <<>>, got |-> <<>>, runs |-> f.runs])
           : f \in FetchSnapshots(st.now, st.snapCache, st.init, st.dirs, st.ents,
                                  st.hasPassword, repoName, env.runSnapshots, env.json)}

-----------------------------------------------------------------------------
(* SpecMerge: the [All Files] view of repository r1, whose two snapshots     *)
(* (Snap2 the newer) back up /a.                                             *)

MaxMergeCalls == 2

\* "[versions] a": a directory may carry the name of a placeholder.
MarkedName == VERSION_PREFIX \o <<CH_a>>

\* /a and what it can hold: a, b, "[versions] a" and a/b.
MergeNodes == {<< <<CH_a>> >>, << <<CH_a>>, <<CH_a>> >>, << <<CH_a>>, <<CH_b>> >>,
               << <<CH_a>>, MarkedName >>, << <<CH_a>>, <<CH_a>>, <<CH_b>> >>}

MergeKinds ==
    {k \in [MergeNodes -> {"absent", "file", "dir"}] :
        /\ k[<< <<CH_a>> >>] = "dir"
        /\ k[<< <<CH_a>>, MarkedName >>] # "file"
        /\ k[<< <<CH_a>>, <<CH_b>> >>] # "dir"
        /\ k[<< <<CH_a>>, <<CH_a>>, <<CH_b>> >>] # "dir"
        /\ (k[<< <<CH_a>>, <<CH_a>>, <<CH_b>> >>] = "file") => (k[<< <<CH_a>>, <<CH_a>> >>] = "dir")}

\* The line restic ls --json prints for node n of snapshot shortId: size and
\* modification time differ between the snapshots.
MergeEntryOf(shortId, n, type) ==
    ResticLsEntry(n[Len(n)], PathOf(n), type,
                  IF type = "file" THEN (IF shortId = <<CH_1>> THEN 5 ELSE 6) ELSE 0, 0,
                  MTime(6, 1601, 1, 1, 0, 0, IF shortId = <<CH_1>> THEN 7 ELSE 8))

MergeListing(shortId, k) ==
    LET present == {n \in MergeNodes : k[n] # "absent"}
        c == Cardinality(present)
        order == CHOOSE f \in [1..c -> present] :
                    \A i, j \in 1..c : i < j => strcmp(PathOf(f[i]), PathOf(f[j])) < 0
    IN  [i \in 1..c |-> MergeEntryOf(shortId, order[i], k[order[i]])]

InitMerge ==
    /\ IdleInit
    /\ resticSnaps = [r \in Repos |-> IF r = "r1" THEN {Snap1, Snap2} ELSE {}]
    /\ \E k1, k2 \in MergeKinds :
          resticTree = [r \in Repos |->
                          [s \in AllIds |-> IF r = "r2" THEN <<>>
                                            ELSE IF s = Snap1.shortId
                                            THEN MergeListing(s, k1) ELSE MergeListing(s, k2)]]
    /\ shadow = [r \in Repos |-> [s \in AllIds |-> 0]]
    /\ lastFetch = [r \in Repos |-> NeverFetched]

\* GetEntriesForPath on \r\a\[All Files]\subpath (lines 1200-1228, no version
\* component in the path).
ListMerged(r, subpath, runSnapshots, runLs) ==
    /\ last.n < MaxMergeCalls
    /\ \E o \in GetAllFilesContents(St(r), Env(r, runSnapshots, runLs), r,
                                    SanitizePath(Snap1.paths[1]), subpath) :
          /\ g_SnapCache' = o.st.snapCache
          /\ g_LsCache' = o.st.lsCache
          /\ hasPassword' = [hasPassword EXCEPT ![r] = o.st.hasPassword]
          /\ cached_dirs' = [cached_dirs EXCEPT ![r] = o.st.dirs]
          /\ dir_entries' = [dir_entries EXCEPT ![r] = o.st.ents]
          /\ loadedSnaps' = o.st.loaded
          /\ last' = [op |-> "ListMerged", n |-> last.n + 1, repo |-> r, subpath |-> subpath,
                      entries |-> o.entries, outCount |-> o.outCount, got |-> o.got,
                      runs |-> o.runs]
          /\ UNCHANGED <<conc, batch, now, g_Initialized, resticSnaps, resticTree, shadow, lastFetch>>

NextMerge ==
    \E subpath \in Subpaths, runSnapshots \in {"ok", "failed"}, runLs \in {"ok", "failed"} :
        ListMerged("r1", subpath, runSnapshots, runLs)

SpecMerge == InitMerge /\ [][NextMerge]_vars

\* The base names the matching snapshots returned, and for a name the entry
\* of the newest snapshot that returned it.
GotNames == {last.got[g].entries[c].name :
                <<g, c>> \in {gc \in (1..Len(last.got)) \X (1..8) :
                                 gc[2] <= Len(last.got[gc[1]].entries)}}

Winner(name) ==
    LET holds(g) == \E c \in 1..Len(last.got[g].entries) : last.got[g].entries[c].name = name
        g == CHOOSE x \in 1..Len(last.got) : holds(x) /\ \A y \in 1..(x - 1) : ~holds(y)
        c == CHOOSE x \in 1..Len(last.got[g].entries) : last.got[g].entries[x].name = name
    IN  last.got[g].entries[c]

\* The merged entry of the listed entry c: a directory under its own name, a
\* file as the placeholder "[versions] " + name; both of kind Directory.
MergedAs(e, c) ==
    /\ e.isDirectory = 1
    /\ e.lastWriteTime = c.lastWriteTime
    /\ IF c.isDirectory # 0
       THEN e.name = c.name
       ELSE /\ e.name = VERSION_PREFIX \o c.name
            /\ e.fileSizeLow = c.fileSizeLow
            /\ e.fileSizeHigh = c.fileSizeHigh

\* C12: listMerged returns exactly one entry per distinct base name that
\* occurs at the subpath in a matching snapshot, with the kind and metadata of
\* the newest snapshot holding the name.
C12_MergedOnePerName ==
    last.op = "ListMerged" =>
        /\ last.outCount = Cardinality(GotNames)
        /\ \A name \in GotNames :
              Cardinality({m \in 1..Len(last.entries) :
                              MergedAs(last.entries[m], Winner(name))}) = 1

\* The kind and name of the merged entry e of the listed entry c.
RewrittenAs(e, c) ==
    /\ e.isDirectory = 1
    /\ e.name = IF c.isDirectory # 0 THEN c.name ELSE VERSION_PREFIX \o c.name

-----------------------------------------------------------------------------
(* wfx_interface.c: the versions of one file, GetFileVersions                *)

CH_0 == 48

\* json_parse.h ResticFindEntry: the fields GetFileVersions reads.  mtime is
\* the text of the "mtime" field: what sscanf("%d-%d-%dT%d:%d:%d") reads from
\* it (n, yr .. sc) and the text that follows the seconds (rest: the fraction
\* and the zone).  Two texts are equal for strcmp when all of it is equal.
ResticFindEntry(shortId, path, sizeLow, sizeHigh, mtime) ==
    [shortId |-> shortId, path |-> path, sizeLow |-> sizeLow, sizeHigh |-> sizeHigh,
     mtime |-> mtime]

FindTime(yr, mo, dy, hr, mn, sc, rest) ==
    [n |-> 6, yr |-> yr, mo |-> mo, dy |-> dy, hr |-> hr, mn |-> mn, sc |-> sc, rest |-> rest]

\* printf("%0<width>d") of a number that is not negative.
RECURSIVE Digits(_)
Digits(v) == IF v < 10 THEN <<CH_0 + v>> ELSE Digits(v \div 10) \o <<CH_0 + (v % 10)>>

RECURSIVE ZeroPad(_, _)
ZeroPad(d, width) == IF Len(d) >= width THEN d ELSE ZeroPad(<<CH_0>> \o d, width)

CH_MINUS == 45

\* Lines 1116-1124: "%04d-%02d-%02d %02d-%02d-%02d (%s) %s".
VersionDisplayName(e) ==
    LET t == e.mtime
        slash == strrchr(e.path, CH_SLASH)
        back == strrchr(e.path, CH_BACKSLASH)
        origName == IF slash # 0 THEN SubSeq(e.path, slash + 1, Len(e.path))
                    ELSE IF back # 0 THEN SubSeq(e.path, back + 1, Len(e.path))
                    ELSE e.path
    IN  ZeroPad(Digits(t.yr), 4) \o <<CH_MINUS>> \o ZeroPad(Digits(t.mo), 2) \o <<CH_MINUS>>
        \o ZeroPad(Digits(t.dy), 2) \o <<CH_SPACE>> \o ZeroPad(Digits(t.hr), 2) \o <<CH_MINUS>>
        \o ZeroPad(Digits(t.mn), 2) \o <<CH_MINUS>> \o ZeroPad(Digits(t.sc), 2)
        \o <<CH_SPACE, CH_LPAREN>> \o e.shortId \o <<CH_RPAREN, CH_SPACE>> \o origName

\* A faulty duplicate test, for comparison: no match is a duplicate.
SeenBefore_Never(findEntries, i) == FALSE

\* Lines 1106-1113: an earlier match carries the same mtime text.
SeenBefore(findEntries, i) ==
    \E j \in 1..(i - 1) : findEntries[i].mtime = findEntries[j].mtime

\* Lines 1100-1130: the loop over findEntries[0..numFound-1].
RECURSIVE VersionLoop(_, _)
VersionLoop(findEntries, numFound) ==
    IF numFound = 0 THEN <<>>
    ELSE LET sofar == VersionLoop(findEntries, numFound - 1)
             e == findEntries[numFound]
         IN  IF SeenBefore(findEntries, numFound) THEN sofar
             ELSE AddEntry(sofar, VersionDisplayName(e), 0, e.sizeLow, e.sizeHigh,
                           ParseISOTime(e.mtime))

\* GetFileVersions: the set of outcomes [st, entries, outCount, runs] of one
\* call.  env is [runSnapshots, json, runFind, found]: found is the array
\* ParseFindOutput returns for the output of restic find.
GetFileVersions(st, env, repoName, sanitizedPath, filePath) ==
    {LET s == [st EXCEPT !.snapCache = f.cache, !.hasPassword = f.hasPassword,
                         !.dirs = f.dirs, !.ents = f.ents]
         found == FindOriginalPath(f.snapshots, f.numSnaps, sanitizedPath)
         numFound == Len(env.found)
         entries == VersionLoop(env.found, numFound)
     IN  IF ~found.ok THEN [st |-> s, entries |-> <<>>, outCount |-> 0, runs |-> f.runs]
         ELSE IF env.runFind # "ok" \/ numFound <= 0
         THEN [st |-> s, entries |-> <<>>, outCount |-> 0, runs |-> Append(f.runs, "find")]
         ELSE [st |-> s, entries |-> entries, outCount |-> Len(entries),
               runs |-> Append(f.runs, "find")]
     : f \in FetchSnapshots(st.now, st.snapCache, st.init, st.dirs, st.ents,
                            st.hasPassword, repoName, env.runSnapshots, env.json)}

-----------------------------------------------------------------------------
(* SpecVersions: the version listing of the file a of repository r1.         *)

MaxVersionCalls == 2
MaxFound == 3

\* The mtimes restic find reports: two in the same second (they differ in the
\* fraction), one a second later.
FindTimes == {FindTime(1601, 1, 1, 0, 0, 7, 1), FindTime(1601, 1, 1, 0, 0, 7, 2),
              FindTime(1601, 1, 1, 0, 0, 8, 1)}

\* The arrays of matches: the i-th match is of snapshot 1 or 2 in turn.
FindOutputs ==
    {[i \in 1..n |-> ResticFindEntry(IF i % 2 = 1 THEN <<CH_2>> ELSE <<CH_1>>,
                                     PathOf(<< <<CH_a>>, <<CH_a>> >>), 4 + i, 0, t[i])]
     : <<n, t>> \in {nt \in (0..MaxFound) \X UNION {[1..k -> FindTimes] : k \in 0..MaxFound} :
                        Len(nt[2]) = nt[1]}}

InitVersions ==
    /\ IdleInit
    /\ resticSnaps = [r \in Repos |-> IF r = "r1" THEN {Snap1, Snap2} ELSE {}]
    /\ resticTree = [r \in Repos |-> [s \in AllIds |-> <<>>]]
    /\ shadow = [r \in Repos |-> [s \in AllIds |-> 0]]
    /\ lastFetch = [r \in Repos |-> NeverFetched]

\* GetEntriesForPath on \r\a\[All Files]\[versions] a (lines 1208-1221).
ListVersions(r, runSnapshots, runFind, found) ==
    /\ last.n < MaxVersionCalls
    /\ \E o \in GetFileVersions(St(r), [runSnapshots |-> runSnapshots, json |-> resticSnaps[r],
                                        runFind |-> runFind, found |-> found],
                                r, SanitizePath(Snap1.paths[1]), <<CH_a>>) :
          /\ g_SnapCache' = o.st.snapCache
          /\ hasPassword' = [hasPassword EXCEPT ![r] = o.st.hasPassword]
          /\ cached_dirs' = [cached_dirs EXCEPT ![r] = o.st.dirs]
          /\ dir_entries' = [dir_entries EXCEPT ![r] = o.st.ents]
          /\ last' = [op |-> "ListVersions", n |-> last.n + 1, repo |-> r,
                      found |-> IF "find" \in SeqToSet(o.runs) /\ runFind = "ok"
                                THEN found ELSE <<>>,
                      entries |-> o.entries, outCount |-> o.outCount, runs |-> o.runs]
          /\ UNCHANGED <<conc, batch, now, g_LsCache, g_Initialized, loadedSnaps, resticSnaps,
                         resticTree, shadow, lastFetch>>

NextVersions ==
    \E runSnapshots \in RunOutcomes, runFind \in RunOutcomes, found \in FindOutputs :
        ListVersions("r1", runSnapshots, runFind, found)

SpecVersions == InitVersions /\ [][NextVersions]_vars

\* The matches that are the first to carry their mtime text, in order.
FirstOfTime(found) ==
    LET idx == {i \in 1..Len(found) : \A j \in 1..(i - 1) : found[j].mtime # found[i].mtime}
        RECURSIVE Pick(_)
        Pick(i) == IF i > Len(found) THEN <<>>
                   ELSE IF i \in idx THEN <<found[i]>> \o Pick(i + 1) ELSE Pick(i + 1)
    IN  Pick(1)

\* One entry per distinct mtime the backend reported, that of the first match
\* carrying it, each of kind File.
OnePerBackendTime ==
    last.op = "ListVersions" =>
        LET first == FirstOfTime(last.found)
        IN  /\ last.outCount = Len(first)
            /\ Len(last.entries) = Len(first)
            /\ \A m \in 1..Len(last.entries) :
                  /\ last.entries[m].isDirectory = 0
                  /\ last.entries[m].lastWriteTime = ParseISOTime(first[m].mtime)
                  /\ last.entries[m].fileSizeLow = first[m].sizeLow
                  /\ last.entries[m].name = VersionDisplayName(first[m])

\* C14 (as stated): listVersions returns one entry per distinct modification
\* timestamp among the backend matches, the first match carrying it; no two
\* returned entries have the same modification timestamp; every returned
\* entry has kind File.
C14_OnePerTimestamp ==
    /\ OnePerBackendTime
    /\ last.op = "ListVersions" =>
          \A m1, m2 \in 1..Len(last.entries) :
              m1 # m2 => last.entries[m1].lastWriteTime # last.entries[m2].lastWriteTime

\* C14 (amended): listVersions returns one entry per distinct modification
\* timestamp text among the backend matches, the first match carrying it, of
\* kind File; two returned entries have the same modification time only when
\* their matches' timestamps agree to the second and differ after it.
C14_OnePerTimestampText ==
    /\ OnePerBackendTime
    /\ last.op = "ListVersions" =>
          \A m1, m2 \in 1..Len(last.entries) :
              (m1 # m2 /\ last.entries[m1].lastWriteTime = last.entries[m2].lastWriteTime)
                  => LET first == FirstOfTime(last.found)
                     IN  /\ first[m1].mtime # first[m2].mtime
                         /\ [first[m1].mtime EXCEPT !.rest = 0] = [first[m2].mtime EXCEPT !.rest = 0]

\* Three matches, the third repeating the mtime of the first: two entries.
C14_Witness ==
    /\ last.op = "ListVersions"
    /\ Len(last.found) = 3
    /\ last.found[3].mtime = last.found[1].mtime
    /\ last.found[2].mtime # last.found[1].mtime
    /\ last.outCount = 2

-----------------------------------------------------------------------------
(* wfx_interface.c: FsStatusInfo and FsGetFile                               *)

ALL_FILES_ENTRY == <<91, 65, 108, 108, 32, 70, 105, 108, 101, 115, 93>>
IsAllFilesPath(seg) == strcmp(seg, ALL_FILES_ENTRY) = 0

\* The password RepoStore holds for a repository once it is entered.
RepoPassword(repoName) == <<CH_b>>

\* ResolveRemotePath on \repoName\seg2\seg3\rest, seg3 a snapshot folder: the
\* set of outcomes [ok, st, shortId, resticPath, runs].  st and env are as in
\* GetSnapshotContents; FindOriginalPath fetches the snapshot list.
ResolveRemotePath(st, env, repoName, seg2, seg3, rest, entered) ==
    LET pw == RepoStore_EnsurePassword(st.hasPassword, entered)
        s1 == [st EXCEPT !.hasPassword = pw.hasPassword]
        id == ExtractShortId(seg3)
        fail(s, runs) == [ok |-> FALSE, st |-> s, shortId |-> <<>>,
                          originalPath |-> <<>>, resticPath |-> <<>>, runs |-> runs]
    IN  IF rest = <<>> \/ GetConnection(repoName) = NULL THEN {fail(st, <<>>)}
        ELSE IF ~pw.ok THEN {fail(s1, <<>>)}
        ELSE IF ~id.ok THEN {fail(s1, <<>>)}
        ELSE {LET s2 == [s1 EXCEPT !.snapCache = f.cache, !.hasPassword = f.hasPassword,
                                   !.dirs = f.dirs, !.ents = f.ents]
                  fo == FindOriginalPath(f.snapshots, f.numSnaps, seg2)
              IN  IF ~fo.ok THEN fail(s2, f.runs)
                  ELSE [ok |-> TRUE, st |-> s2, shortId |-> id.shortId,
                        originalPath |-> fo.originalPath,
                        resticPath |-> BuildLsSubpath(fo.originalPath, rest), runs |-> f.runs]
              : f \in FetchSnapshots(s1.now, s1.snapCache, s1.init, s1.dirs, s1.ents,
                                     s1.hasPassword, repoName, env.runSnapshots, env.json)}

\* FsStatusInfo(RemoteName, FS_STATUS_START, infoOperation) on
\* \repoName\seg2\seg3\rest: the set of outcomes [st, b, fs, opened, runs].
FsStatusInfo_Start(st, env, b, fs, infoOperation, repoName, seg2, seg3, rest, entered, rnd) ==
    LET pw == RepoStore_EnsurePassword(st.hasPassword, entered)
        s1 == [st EXCEPT !.hasPassword = pw.hasPassword]
        id == ExtractShortId(seg3)
        none(s, runs) == [st |-> s, b |-> b, fs |-> fs, opened |-> FALSE, runs |-> runs]
    IN  IF infoOperation # "GET_MULTI" /\ infoOperation # "GET_MULTI_THREAD" THEN {none(st, <<>>)}
        ELSE IF IsAllFilesPath(seg3) \/ GetConnection(repoName) = NULL THEN {none(st, <<>>)}
        ELSE IF ~pw.ok THEN {none(s1, <<>>)}
        ELSE IF ~id.ok THEN {none(s1, <<>>)}
        ELSE {LET s2 == [s1 EXCEPT !.snapCache = f.cache, !.hasPassword = f.hasPassword,
                                   !.dirs = f.dirs, !.ents = f.ents]
                  fo == FindOriginalPath(f.snapshots, f.numSnaps, seg2)
                  started == BatchStart(b, fs, repoName,
                                        IF s2.hasPassword THEN RepoPassword(repoName) ELSE <<>>,
                                        id.shortId, fo.originalPath, rest, rnd)
              IN  IF ~fo.ok THEN none(s2, f.runs)
                  ELSE [st |-> s2, b |-> started.b, fs |-> started.fs,
                        opened |-> TRUE, runs |-> f.runs]
              : f \in FetchSnapshots(s1.now, s1.snapCache, s1.init, s1.dirs, s1.ents,
                                     s1.hasPassword, repoName, env.runSnapshots, env.json)}

\* What RunResticDump can come to: the file is written, restic fails, the
\* user aborts in the progress callback.
DumpOutcomes == {"ok", "failed", "aborted"}

\* The result of FsGetFile after RunResticDump, lines 1661-1674.
DumpResult(dumpRun) ==
    IF dumpRun = "ok" THEN "FS_FILE_OK"
    ELSE IF dumpRun = "aborted" THEN "FS_FILE_USERABORT"
    ELSE "FS_FILE_READERROR"

\* The checks of FsGetFile made before the path is resolved (lines 1560-1568)
\* and the progress report made after it (1575): what the flags, the
\* destination and the user make of them.
EarlyOutcomes == {"none", "resume", "exists", "abort"}

\* FsGetFile on \repoName\seg2\seg3\rest: the set of outcomes
\* [st, b, fs, result, runs, path, admitted, served]: the restic path resolved,
\* whether the request got as far as being served, and how it was served (a
\* local copy, a dump).  copyOk says whether CopyFileW succeeds; env.held are
\* the files of the snapshot.
FsGetFile(st, env, b, fs, repoName, seg2, seg3, rest, early, entered, copyOk) ==
    LET out(s, bb, ff, result, runs, path, served) ==
            [st |-> s, b |-> bb, fs |-> ff, result |-> result, runs |-> runs, path |-> path,
             admitted |-> served # "none", served |-> served, opened |-> FALSE]
    IN  IF early = "resume" THEN {out(st, b, fs, "FS_FILE_NOTSUPPORTED", <<>>, <<>>, "none")}
        ELSE IF early = "exists" THEN {out(st, b, fs, "FS_FILE_EXISTS", <<>>, <<>>, "none")}
        ELSE {IF ~r.ok THEN out(r.st, b, fs, "FS_FILE_NOTFOUND", r.runs, <<>>, "none")
              ELSE IF early = "abort"
                   THEN out(r.st, b, fs, "FS_FILE_USERABORT", r.runs, r.resticPath, "none")
              ELSE LET step == BatchRestoreStep(b, fs, env.runRestore, env.held, r.resticPath)
                   IN  IF /\ step.b.active
                          /\ TempFileExists(step.fs, step.b.tempDir, r.resticPath)
                          /\ copyOk
                       THEN out(r.st, step.b, step.fs, "FS_FILE_OK",
                                r.runs \o step.runs, r.resticPath, "copy")
                       ELSE out(r.st, step.b, step.fs, DumpResult(env.runDump),
                                r.runs \o step.runs \o <<"dump">>, r.resticPath, "dump")
              : r \in ResolveRemotePath(st, env, repoName, seg2, seg3, rest, entered)}

-----------------------------------------------------------------------------
(* SpecBatch: the host copies files out of the snapshot of r1.  It brackets   *)
(* each multi-file transfer with FS_STATUS_START and FS_STATUS_END, requests *)
(* files inside and outside transfers, and can disconnect the plugin at any  *)
(* moment, which ends the transfer in progress; time passes.                 *)

MaxBatchCalls == 4

\* The files of the snapshot: /a/a/a and /a/b, as the host names them below
\* the snapshot folder, and their restic paths.
FileRests == {<<CH_a, CH_BACKSLASH, CH_a>>, <<CH_b>>}
HeldFiles == {BuildLsSubpath(Snap1.paths[1], rest) : rest \in FileRests}

\* The folders a transfer can start in: the snapshot folder, [All Files], and
\* a folder whose name holds no short id.
StartFolders == {DisplayName(Snap1), ALL_FILES_ENTRY, Snap1.time}

Phase(b) ==
    IF b.active THEN (IF b.pending THEN "Both" ELSE "Active")
    ELSE IF b.pending THEN "Pending" ELSE "Idle"

\* shadow: the transfer in progress as the host sees it.  `open` says whether
\* a multi-file transfer is in progress, `session` is the directory of the
\* session its START opened ("" when it opened none), `attempts` counts the
\* bulk restores run since that START, `restored` and `failed` say whether one
\* succeeded and whether one failed.  `sessionRestored` says whether a bulk
\* restore succeeded since a START last opened a session, in whatever transfer.
Transfer(open, session, sessionRestored) ==
    [open |-> open, session |-> session, attempts |-> 0, restored |-> FALSE,
     failed |-> FALSE, sessionRestored |-> sessionRestored]

InitBatch ==
    /\ IdleInit
    /\ resticSnaps = [r \in Repos |-> IF r = "r1" THEN {Snap1} ELSE {}]
    /\ resticTree = [r \in Repos |-> [s \in AllIds |-> <<>>]]
    /\ shadow = Transfer(FALSE, <<>>, FALSE)
    /\ lastFetch = [r \in Repos |-> NeverFetched]

BatchEnv(runSnapshots, runRestore, runDump) ==
    [runSnapshots |-> runSnapshots, json |-> resticSnaps["r1"], runRestore |-> runRestore,
     runDump |-> runDump, held |-> HeldFiles]

\* Whether the snapshot list of r1 is cached and younger than the TTL.
ListCached ==
    LET i == FindSnapSlot(g_SnapCache, "r1")
    IN  i # 0 /\ now - g_SnapCache[i].fetchTimeMs < SNAPSHOT_CACHE_TTL_MS

\* last: the call just made, the session and the directories it found
\* (pre, preDirs), the directory of the transfer's session (session), whether
\* the snapshot list was cached, and what the call did: the restic path it
\* resolved, the restic commands it ran, how it served the file and what it
\* returned.
Observed(op, o, copyOk, runDump) ==
    [op |-> op, n |-> last.n + 1, pre |-> g_BatchRestore, preDirs |-> tempDirs,
     session |-> shadow.session, cached |-> ListCached, opened |-> o.opened,
     path |-> o.path, runs |-> o.runs, admitted |-> o.admitted, served |-> o.served,
     copyOk |-> copyOk, dump |-> IF o.served = "dump" THEN runDump ELSE "none",
     result |-> o.result]

\* What a call that is no file request leaves in last.
NoFile(opened, runs) ==
    [opened |-> opened, path |-> <<>>, runs |-> runs, admitted |-> FALSE,
     served |-> "none", result |-> None]

\* FsStatusInfo(..., FS_STATUS_START, infoOperation).
TransferStart(infoOperation, seg3, entered, runSnapshots, rnd) ==
    /\ last.n < MaxBatchCalls
    /\ infoOperation = "GET_MULTI" => ~shadow.open
    /\ \E o \in FsStatusInfo_Start(St("r1"), BatchEnv(runSnapshots, "norun", "failed"),
                                   g_BatchRestore, tempDirs, infoOperation, "r1",
                                   SanitizePath(Snap1.paths[1]), seg3, <<>>, entered, rnd) :
          /\ g_BatchRestore' = o.b
          /\ tempDirs' = o.fs
          /\ g_SnapCache' = o.st.snapCache
          /\ hasPassword' = [hasPassword EXCEPT !["r1"] = o.st.hasPassword]
          /\ cached_dirs' = [cached_dirs EXCEPT !["r1"] = o.st.dirs]
          /\ dir_entries' = [dir_entries EXCEPT !["r1"] = o.st.ents]
          /\ shadow' = IF infoOperation # "GET_MULTI" THEN shadow
                       ELSE IF o.opened THEN Transfer(TRUE, o.b.tempDir, FALSE)
                       ELSE Transfer(TRUE, <<>>, shadow.sessionRestored)
          /\ last' = Observed("Start", NoFile(o.opened, o.runs), FALSE, "none")
    /\ UNCHANGED <<conc, now, g_LsCache, g_Initialized, loadedSnaps, resticSnaps, resticTree, lastFetch>>

\* FsStatusInfo(..., FS_STATUS_END, FS_STATUS_OP_GET_MULTI).
TransferEnd ==
    /\ last.n < MaxBatchCalls
    /\ shadow.open
    /\ g_BatchRestore' = BatchEnd(g_BatchRestore, tempDirs).b
    /\ tempDirs' = BatchEnd(g_BatchRestore, tempDirs).fs
    /\ shadow' = Transfer(FALSE, <<>>, shadow.sessionRestored)
    /\ last' = Observed("End", NoFile(FALSE, <<>>), FALSE, "none")
    /\ UNCHANGED <<conc, now, g_SnapCache, g_LsCache, g_Initialized, cached_dirs, dir_entries,
                   loadedSnaps, hasPassword, resticSnaps, resticTree, lastFetch>>

\* FsGetFile on a file of the snapshot folder of r1.
GetFile(rest, early, entered, copyOk, runSnapshots, runRestore, runDump) ==
    /\ last.n < MaxBatchCalls
    /\ \E o \in FsGetFile(St("r1"), BatchEnv(runSnapshots, runRestore, runDump),
                          g_BatchRestore, tempDirs, "r1", SanitizePath(Snap1.paths[1]),
                          DisplayName(Snap1), rest, early, entered, copyOk) :
          /\ g_BatchRestore' = o.b
          /\ tempDirs' = o.fs
          /\ g_SnapCache' = o.st.snapCache
          /\ hasPassword' = [hasPassword EXCEPT !["r1"] = o.st.hasPassword]
          /\ cached_dirs' = [cached_dirs EXCEPT !["r1"] = o.st.dirs]
          /\ dir_entries' = [dir_entries EXCEPT !["r1"] = o.st.ents]
          /\ LET tried == "restore" \in SeqToSet(o.runs)
             IN  shadow' = [shadow EXCEPT
                              !.attempts = IF tried THEN @ + 1 ELSE @,
                              !.restored = @ \/ (tried /\ o.b.active),
                              !.sessionRestored = @ \/ (tried /\ o.b.active),
                              !.failed = @ \/ (tried /\ ~o.b.active)]
          /\ last' = Observed("GetFile", o, copyOk, runDump)
    /\ UNCHANGED <<conc, now, g_LsCache, g_Initialized, loadedSnaps, resticSnaps, resticTree, lastFetch>>

\* FsDisconnect, with the session in any phase.
Disconnect ==
    /\ last.n < MaxBatchCalls
    /\ g_SnapCache' = <<>>
    /\ g_LsCache' = <<>>
    /\ hasPassword' = [r \in Repos |-> FALSE]
    /\ g_Initialized' = FALSE
    /\ g_BatchRestore' = BatchDisconnect(g_BatchRestore, DeleteTempDir(tempDirs)).b
    /\ tempDirs' = BatchDisconnect(g_BatchRestore, DeleteTempDir(tempDirs)).fs
    /\ shadow' = Transfer(FALSE, <<>>, shadow.sessionRestored)
    /\ last' = Observed("Disconnect", NoFile(FALSE, <<>>), FALSE, "none")
    /\ UNCHANGED <<conc, now, cached_dirs, dir_entries, loadedSnaps, resticSnaps, resticTree, lastFetch>>

\* The answers of the backend and of the user are drawn only where the
\* handler asks for them: a password when none is held, a snapshot list when
\* none is cached, a restore when the session is pending, and nothing after a
\* request is turned away.
Asked(entered, runSnapshots) ==
    /\ hasPassword["r1"] => entered
    /\ ListCached => runSnapshots = "ok"

NextBatch ==
    \/ Tick
    \/ \E infoOperation \in {"GET_MULTI", "GET_SINGLE"}, seg3 \in StartFolders,
          entered \in BOOLEAN, runSnapshots \in RunOutcomes, rnd \in RandomValues :
          /\ Asked(entered, runSnapshots)
          /\ infoOperation = "GET_SINGLE" =>
                seg3 = DisplayName(Snap1) /\ entered /\ runSnapshots = "ok" /\ rnd = <<CH_1>>
          /\ TransferStart(infoOperation, seg3, entered, runSnapshots, rnd)
    \/ TransferEnd
    \/ \E rest \in FileRests, early \in EarlyOutcomes, entered \in BOOLEAN, copyOk \in BOOLEAN,
          runSnapshots \in RunOutcomes, runRestore \in {"ok", "failed"}, runDump \in DumpOutcomes :
          /\ Asked(entered, runSnapshots)
          /\ early \in {"resume", "exists"} => entered /\ runSnapshots = "ok"
          /\ early # "none" => copyOk /\ runRestore = "ok" /\ runDump = "ok"
          /\ ~(g_BatchRestore.pending /\ ~g_BatchRestore.active) => runRestore = "ok"
          /\ GetFile(rest, early, entered, copyOk, runSnapshots, runRestore, runDump)
    \/ Disconnect

SpecBatch == InitBatch /\ [][NextBatch]_vars

\* The phase the call found and the phase it left, and whether the call ran
\* the bulk restore.
PhaseBefore == IF last.op = "none" THEN "Idle" ELSE Phase(last.pre)
PhaseAfter == Phase(g_BatchRestore)
Restored == last.op # "none" /\ "restore" \in SeqToSet(last.runs)

\* The transitions the session is said to make.
ListedTransition ==
    \/ PhaseBefore = "Idle" /\ PhaseAfter = "Pending" /\ last.op = "Start"
    \/ PhaseBefore = "Pending" /\ PhaseAfter = "Active" /\ last.op = "GetFile" /\ Restored
    \/ PhaseBefore = "Pending" /\ PhaseAfter = "Idle" /\ last.op = "GetFile" /\ Restored
    \/ PhaseAfter = "Idle" /\ last.op = "End"

RunCount(cmd) == Cardinality({i \in 1..Len(last.runs) : last.runs[i] = cmd})

\* A file request that got as far as being served.
Served == last.op = "GetFile" /\ last.admitted

\* C16: once the bulk restore of a transfer has failed, the file request that
\* ran it and every later file request of the transfer is served by one
\* per-file retrieval and returns that retrieval's result, and the restore is
\* run once only in the transfer.
C16_FailedRestoreFallsBack ==
    Served /\ shadow.failed =>
        /\ last.served = "dump"
        /\ RunCount("dump") = 1
        /\ last.result = DumpResult(last.dump)
        /\ shadow.attempts = 1
        /\ ~shadow.restored
        /\ PhaseAfter = "Idle"

\* C16 witness: a file request made after the one whose bulk restore failed,
\* in the same transfer, whose retrieval fails too.
C16_Witness ==
    /\ Served
    /\ shadow.open
    /\ shadow.failed
    /\ ~Restored
    /\ last.result = "FS_FILE_READERROR"

\* Whether the file the request resolved lay in the session's directory when
\* the request was made.
InRestoredCopy ==
    /\ last.pre.tempDir \in DOMAIN last.preDirs
    /\ last.path \in last.preDirs[last.pre.tempDir].files

\* C17 as stated: a file request that finds the session Active is answered by
\* a local copy and no backend call when its file is in the restored copy, by
\* exactly one per-file retrieval when it is not, and leaves the session
\* Active.
C17_ActiveServesLocally ==
    Served /\ PhaseBefore = "Active" =>
        /\ PhaseAfter = "Active"
        /\ InRestoredCopy => last.served = "copy" /\ last.runs = <<>>
        /\ ~InRestoredCopy => last.served = "dump" /\ RunCount("dump") = 1

\* C17, amended: the local copy answers when the file is in the restored copy
\* and CopyFileW succeeds; the request then runs no backend command but the
\* snapshot listing of its path resolution, and that only when the list is not
\* cached within the TTL.  When the file is absent or the copy fails, one
\* per-file retrieval answers and its result is returned.
C17_ActiveServesLocallyIfCopied ==
    Served /\ PhaseBefore = "Active" =>
        /\ PhaseAfter = "Active"
        /\ g_BatchRestore = last.pre
        /\ RunCount("restore") = 0
        /\ RunCount("snapshots") = IF last.cached THEN 0 ELSE 1
        /\ InRestoredCopy /\ last.copyOk =>
              last.served = "copy" /\ RunCount("dump") = 0 /\ last.result = "FS_FILE_OK"
        /\ ~(InRestoredCopy /\ last.copyOk) =>
              /\ last.served = "dump"
              /\ RunCount("dump") = 1
              /\ last.result = DumpResult(last.dump)

\* C17 witness: both cases in turn in an Active session: the last request was
\* answered from the restored copy with no backend call, the directory holds
\* one file only, so the other file of the snapshot is absent from it.
C17_Witness ==
    /\ Served
    /\ PhaseBefore = "Active"
    /\ InRestoredCopy
    /\ last.served = "copy"
    /\ last.runs = <<>>
    /\ \E f \in HeldFiles : f \notin last.preDirs[last.pre.tempDir].files

\* C17 witness of the other case: a request in an Active session for a file
\* that is not in the restored copy, answered by one retrieval.
C17_WitnessAbsent ==
    /\ Served
    /\ PhaseBefore = "Active"
    /\ ~InRestoredCopy
    /\ last.served = "dump"
    /\ last.result = "FS_FILE_OK"

\* C18: the transfer END and FsDisconnect leave the session neither pending
\* nor active, whatever phase they find.
C18_EndAndDisconnectLeaveIdle ==
    last.op \in {"End", "Disconnect"} => PhaseAfter = "Idle"

\* C19: when a transfer whose START opened a session ends, by the transfer
\* END or by FsDisconnect, the session's directory is gone and no password is
\* held in g_BatchRestore.
C19_EndCleansUp ==
    last.op \in {"End", "Disconnect"} /\ last.session # <<>> =>
        /\ ~tempDirs[last.session].exists
        /\ g_BatchRestore.password = <<>>

-----------------------------------------------------------------------------
(* SpecPurge: the persistent cache of r1 holds the listing of /a of both of  *)
(* its snapshots; snapshots are forgotten outside the plugin, the host lists *)
(* the snapshots, refreshes the list and disconnects, and time passes.       *)

PurgeListing == <<DirEntry(<<CH_a>>, 0, 5, 2, FileTime(9, 1))>>

\* The tables of r1 after GetSnapshotContents cached /a of each snapshot.
PurgeTables ==
    LET one == LsCache_Store(TRUE, {}, {}, "r1", Snap1.shortId, Snap1.paths[1], PurgeListing, 1)
    IN  LsCache_Store(TRUE, one.dirs, one.ents, "r1", Snap2.shortId, Snap2.paths[1],
                      PurgeListing, 1)

\* The plugin has been started again: FsInit has run, nothing is cached in
\* memory, and the database of r1 holds what the last session left.
InitPurge ==
    /\ now = 0
    /\ g_SnapCache = <<>>
    /\ g_LsCache = <<>>
    /\ g_Initialized = TRUE
    /\ cached_dirs = [r \in Repos |-> IF r = "r1" THEN PurgeTables.dirs ELSE {}]
    /\ dir_entries = [r \in Repos |-> IF r = "r1" THEN PurgeTables.ents ELSE {}]
    /\ loadedSnaps = {}
    /\ hasPassword = [r \in Repos |-> TRUE]
    /\ last = [op |-> "none", n |-> 0]
    /\ g_BatchRestore = BatchZero
    /\ tempDirs = [d \in TempDirNames |-> NoDir]
    /\ threads = [t \in ThreadIds |-> IdleThread]
    /\ localFile = [t \in ThreadIds |-> Absent]
    /\ resticProc = [t \in ThreadIds |-> "none"]
    /\ g_Dbs = {}
    /\ resticSnaps = [r \in Repos |-> IF r = "r1" THEN {Snap1, Snap2} ELSE {}]
    /\ resticTree = [r \in Repos |-> [s \in AllIds |-> <<>>]]
    /\ shadow = [r \in Repos |-> [s \in AllIds |-> 0]]
    /\ lastFetch = [r \in Repos |-> NeverFetched]

\* restic forget run outside the plugin: r1 loses a snapshot.
Forget(sn) ==
    /\ sn \in resticSnaps["r1"]
    /\ resticSnaps' = [resticSnaps EXCEPT !["r1"] = @ \ {sn}]
    /\ UNCHANGED <<conc, batch, now, g_SnapCache, g_LsCache, g_Initialized, cached_dirs, dir_entries,
                   loadedSnaps, hasPassword, resticTree, last, shadow, lastFetch>>

\* GetEntriesForPath on \r1: the password, then FetchSnapshots, the DELETE
\* statements of its purge succeeding or not.
FetchList(entered, run, okEntries, okDirs) ==
    /\ last.n < MaxCalls
    /\ LET r == "r1"
           pw == RepoStore_EnsurePassword(hasPassword[r], entered)
       IN  IF ~pw.ok THEN Cancelled(r)
           ELSE \E f \in FetchSnapshotsSteps(now, g_SnapCache, g_Initialized, cached_dirs[r],
                                             dir_entries[r], pw.hasPassword, r, run,
                                             resticSnaps[r], okEntries, okDirs) :
                  /\ g_SnapCache' = f.cache
                  /\ hasPassword' = [hasPassword EXCEPT ![r] = f.hasPassword]
                  /\ cached_dirs' = [cached_dirs EXCEPT ![r] = f.dirs]
                  /\ dir_entries' = [dir_entries EXCEPT ![r] = f.ents]
                  /\ lastFetch' = [lastFetch EXCEPT ![r] =
                                      ObserveFetch(@, now, run, resticSnaps[r], f.snapshots)]
                  /\ last' = [op |-> "FetchList", n |-> last.n + 1, repo |-> r,
                              fetched |-> "snapshots" \in SeqToSet(f.runs) /\ run = "ok",
                              list |-> resticSnaps[r], init |-> g_Initialized,
                              okEntries |-> okEntries, okDirs |-> okDirs,
                              pre |-> [dirs |-> cached_dirs[r], ents |-> dir_entries[r]]]
                  /\ UNCHANGED <<conc, batch, now, g_LsCache, g_Initialized, loadedSnaps,
                                 resticSnaps, resticTree, shadow>>

NextPurge ==
    \/ Tick
    \/ \E sn \in AllSnaps : Forget(sn)
    \/ \E entered \in BOOLEAN, run \in RunOutcomes, okEntries \in BOOLEAN, okDirs \in BOOLEAN :
          (hasPassword["r1"] => entered) /\ FetchList(entered, run, okEntries, okDirs)
    \/ RefreshSnapshotList("r1")
    \/ FsDisconnect

SpecPurge == InitPurge /\ [][NextPurge]_vars

\* The rows of r1's persistent cache whose short id is not in the list.
StaleRows(list) ==
    {row \in cached_dirs["r1"] \cup dir_entries["r1"] :
        \A sn \in list : sn.shortId # row.short_id}

\* A call of listSnapshots on r1 that ran restic snapshots with exit code 0.
Fetched == last.op = "FetchList" /\ last.fetched

-----------------------------------------------------------------------------
(* SpecPurgeCall: LsCache_Purge called with every list of valid short ids,   *)
(* the empty one included, on tables filled by committed stores, before and  *)
(* after LsCache_Shutdown.                                                   *)

\* The lists of valid short ids of a call: none, one id, both ids.
PurgeValidLists == {<<>>} \cup TxnValidLists

\* LsCache_Store(k, a), every statement succeeding.
PurgeStore(k, a) == TxnStore(k, a, NoStoreFault(Len(a)))

\* LsCache_Purge(r, validShortIds, Len(validShortIds)) in which each DELETE
\* succeeds or not; last.ret is the value returned.
PurgeCall(r, validShortIds, okEntries, okDirs) ==
    LET n == Len(validShortIds)
        t == LsCache_PurgeSteps(g_Initialized, cached_dirs[r], dir_entries[r], r,
                                validShortIds, n, okEntries, okDirs)
        ret == LsCache_PurgeResult(g_Initialized, cached_dirs[r], dir_entries[r], r,
                                   validShortIds, n, okEntries, okDirs)
    IN  /\ last.n < MaxTxnCalls
        /\ cached_dirs' = [cached_dirs EXCEPT ![r] = t.dirs]
        /\ dir_entries' = [dir_entries EXCEPT ![r] = t.ents]
        /\ last' = [op |-> "PurgeCall", n |-> last.n + 1, repo |-> r,
                    valid |-> SeqToSet(validShortIds), init |-> g_Initialized,
                    okEntries |-> okEntries, okDirs |-> okDirs,
                    pre |-> [dirs |-> cached_dirs[r], ents |-> dir_entries[r]],
                    ret |-> ret]
        /\ UNCHANGED <<conc, batch, now, g_SnapCache, g_LsCache, g_Initialized, loadedSnaps,
                       hasPassword, resticSnaps, resticTree, lastFetch, shadow>>

\* LsCache_Shutdown: the connections are closed, the files stay.
PurgeShutdown ==
    /\ g_Initialized
    /\ g_Initialized' = FALSE
    /\ last' = [op |-> "Shutdown", n |-> last.n]
    /\ UNCHANGED <<conc, batch, now, g_SnapCache, g_LsCache, cached_dirs, dir_entries, loadedSnaps,
                   hasPassword, resticSnaps, resticTree, lastFetch, shadow>>

NextPurgeCall ==
    \/ \E k \in TxnKeys, a \in StoreArrays : PurgeStore(k, a)
    \/ \E v \in PurgeValidLists, okEntries, okDirs \in BOOLEAN :
          PurgeCall("r1", v, okEntries, okDirs)
    \/ PurgeShutdown

SpecPurgeCall == InitTxn /\ [][NextPurgeCall]_vars

\* The rows of a table whose snapshot id is in V, and those whose id is not.
RowsIn(rows, V) == {r \in rows : r.short_id \in V}
RowsOutside(rows, V) == {r \in rows : r.short_id \notin V}

\* The last step was a purge of r1 with the cache initialised in which both
\* DELETE statements succeeded.
PurgeSucceeded ==
    last.op = "PurgeCall" /\ last.init /\ last.okEntries /\ last.okDirs

\* The rows the last purge removed from the two tables.
PurgeDeleted ==
    Cardinality(last.pre.dirs \ cached_dirs[last.repo])
        + Cardinality(last.pre.ents \ dir_entries[last.repo])

C21_WitnessEmptyList ==
    PurgeSucceeded /\ last.valid = {} /\ last.pre.dirs # {}

-----------------------------------------------------------------------------
(* Spec: a fetch of the snapshot list that fails, and the order of the list  *)

\* The last call was a listSnapshots of last.repo whose backend fetch ended as
\* `run`.
FetchEnded(run) == last.op = "FetchSnapshots" /\ last.run = run

\* The call returned nothing and no entry of the snapshot cache names its
\* repository.
EmptyAndUncached ==
    /\ last.fetched.numSnaps = 0
    /\ last.fetched.snapshots = <<>>
    /\ \A i \in 1..Len(g_SnapCache) : g_SnapCache[i].repoName # last.repo

\* C22 as stated: when the fetch fails, by a nonzero exit code or because the
\* backend could not be run, the call returns nothing, the password of the
\* repository is no longer held, and the snapshot cache holds no entry of the
\* repository.
C22_FailedFetchInvalidates ==
    (FetchEnded("failed") \/ FetchEnded("norun")) =>
        EmptyAndUncached /\ ~hasPassword[last.repo]

\* C22 amended: in both cases the call returns nothing and the snapshot cache
\* holds no entry of the repository; after a nonzero exit code the password is
\* no longer held, and when the backend could not be run the password stays
\* held.
C22_FailedFetchByKind ==
    /\ FetchEnded("failed") => EmptyAndUncached /\ ~hasPassword[last.repo]
    /\ FetchEnded("norun") => EmptyAndUncached /\ hasPassword[last.repo]

\* C22 witness: a fetch with a nonzero exit code made when the repository had
\* an expired cache entry.
C22_Witness ==
    /\ FetchEnded("failed")
    /\ last.prev.valid
    /\ last.at - last.prev.goodAt >= SNAPSHOT_CACHE_TTL_MS

\* The backend could not be run when the repository had an expired entry.
C22_WitnessNoRun ==
    /\ FetchEnded("norun")
    /\ last.prev.valid
    /\ last.at - last.prev.goodAt >= SNAPSHOT_CACHE_TTL_MS

\* C23: every list a listSnapshots call returns, fetched or served from the
\* cache, is newest first: no snapshot is followed by one whose time string
\* compares greater.
C23_NewestFirst ==
    last.op = "FetchSnapshots" =>
        LET list == last.fetched.snapshots
        IN  /\ Len(list) = last.fetched.numSnaps
            /\ \A i, j \in 1..Len(list) : i < j => strcmp(list[i].time, list[j].time) >= 0

\* C23 witness: a list of two snapshots of different times served from the
\* cache.
C23_Witness ==
    /\ FetchEnded("none")
    /\ Len(last.fetched.snapshots) = 2
    /\ strcmp(last.fetched.snapshots[1].time, last.fetched.snapshots[2].time) > 0

\* A list of two snapshots of different times freshly fetched.
C23_WitnessFetched ==
    /\ FetchEnded("ok")
    /\ Len(last.fetched.snapshots) = 2
    /\ strcmp(last.fetched.snapshots[1].time, last.fetched.snapshots[2].time) > 0

-----------------------------------------------------------------------------
(* SpecDump: FsGetFile of a file that is fetched by restic dump, step by     *)
(* step: RunResticDump starts the process and creates the destination, reads *)
(* the pipe chunk by chunk with a progress callback after each chunk, then   *)
(* closes and returns.  The request is one that resolves and finds no        *)
(* restored copy; each host thread copies to a destination of its own.       *)

MaxChunks == 2
MaxDumpCalls == 2

\* GetExitCodeProcess on a process that has not ended.
STILL_ACTIVE == 259

\* DumpProgressCallback: answer is what g_ProgressProc returns (TRUE when the
\* user wants to abort); [aborted, continue] are pud->aborted and the value
\* returned.
DumpProgressCallback(pudAborted, answer) ==
    IF answer THEN [aborted |-> TRUE, continue |-> FALSE]
    ELSE [aborted |-> pudAborted, continue |-> TRUE]

\* One round of the loop of RunResticDump with a chunk in the pipe: WriteFile,
\* then the callback.  th is the thread's locals, file the destination.
RunResticDump_Chunk(th, file, writeOk, answer) ==
    IF ~writeOk THEN [th |-> [th EXCEPT !.pc = "closing", !.remaining = @ - 1], file |-> file]
    ELSE LET cb == DumpProgressCallback(th.pudAborted, answer)
         IN  [th |-> [th EXCEPT !.totalWritten = @ + 1, !.remaining = @ - 1,
                                !.pudAborted = cb.aborted,
                                !.aborted = ~cb.continue,
                                !.answered = @ \/ answer,
                                !.pc = IF cb.continue THEN "streaming" ELSE "closing"],
              file |-> Written(file.chunks + 1)]

\* A faulty end, for comparison: the destination is kept after an abort.
RunResticDump_End_KeepFile(aborted, file, proc, exitCode) ==
    IF aborted THEN [ok |-> FALSE, file |-> file, proc |-> "terminated", exitCode |-> -1]
    ELSE [ok |-> exitCode = 0, file |-> IF exitCode = 0 THEN file ELSE Absent, proc |-> proc, exitCode |-> exitCode]

\* RunResticDump after the loop.  Aborted: TerminateProcess, DeleteFileA,
\* FALSE.  Else the wait, the exit code (STILL_ACTIVE when the wait timed
\* out), and DeleteFileA and FALSE when it is not 0.
RunResticDump_End(aborted, file, proc, exitCode) ==
    IF aborted
    THEN [ok |-> FALSE, file |-> Absent,
          proc |-> IF proc = "running" THEN "terminated" ELSE proc, exitCode |-> -1]
    ELSE LET code == IF proc = "running" THEN STILL_ACTIVE ELSE exitCode
         IN  IF code # 0 THEN [ok |-> FALSE, file |-> Absent, proc |-> proc, exitCode |-> code]
             ELSE [ok |-> TRUE, file |-> file, proc |-> proc, exitCode |-> code]

\* What FsGetFile returns after RunResticDump returned ok.
DumpReturn(ok, pudAborted) ==
    IF ~ok THEN (IF pudAborted THEN "FS_FILE_USERABORT" ELSE "FS_FILE_READERROR")
    ELSE "FS_FILE_OK"

\* A thread whose call returned `result`.
Returned(th, result) == [th EXCEPT !.pc = "returned", !.result = result]

\* The locals of a call at its entry.
EnteredThread(chunks) ==
    [pc |-> "streaming", aborted |-> FALSE, pudAborted |-> FALSE, totalWritten |-> 0,
     remaining |-> chunks, exitCode |-> 0, result |-> "none", answered |-> FALSE]

InitDump ==
    /\ IdleInit
    /\ resticSnaps = [r \in Repos |-> {Snap1}]
    /\ resticTree = [r \in Repos |-> [s \in AllIds |-> <<>>]]
    /\ shadow = [r \in Repos |-> [s \in AllIds |-> 0]]
    /\ lastFetch = [r \in Repos |-> NeverFetched]

DumpUnchanged ==
    UNCHANGED <<g_Dbs, batch, now, g_SnapCache, g_LsCache, g_Initialized, cached_dirs, dir_entries,
                loadedSnaps, hasPassword, resticSnaps, resticTree, shadow, lastFetch>>

\* FsGetFile from its entry to the first ReadFile of RunResticDump.  The file
\* dumped has `chunks` chunks; overwrite is FS_COPYFLAGS_OVERWRITE; firstAbort
\* is the answer to the initial progress report.
GetFileBegin(t, chunks, overwrite, firstAbort, createProcessOk, createFileOk) ==
    LET th == EnteredThread(chunks)
    IN  /\ threads[t].pc \in {"idle", "returned"}
        /\ last.n < MaxDumpCalls
        /\ last' = [op |-> "FsGetFile", n |-> last.n + 1]
        /\ IF ~overwrite /\ localFile[t].exists
           THEN /\ threads' = [threads EXCEPT ![t] = Returned(th, "FS_FILE_EXISTS")]
                /\ UNCHANGED <<localFile, resticProc>>
           ELSE IF firstAbort
           THEN /\ threads' = [threads EXCEPT ![t] = Returned(th, "FS_FILE_USERABORT")]
                /\ UNCHANGED <<localFile, resticProc>>
           ELSE IF ~createProcessOk
           THEN /\ threads' = [threads EXCEPT ![t] = Returned(th, DumpReturn(FALSE, FALSE))]
                /\ resticProc' = [resticProc EXCEPT ![t] = "none"]
                /\ UNCHANGED localFile
           ELSE IF ~createFileOk
           THEN /\ threads' = [threads EXCEPT ![t] = Returned(th, DumpReturn(FALSE, FALSE))]
                /\ resticProc' = [resticProc EXCEPT ![t] = "terminated"]
                /\ UNCHANGED localFile
           ELSE /\ threads' = [threads EXCEPT ![t] = th]
                /\ resticProc' = [resticProc EXCEPT ![t] = "running"]
                /\ localFile' = [localFile EXCEPT ![t] = Written(0)]
        /\ DumpUnchanged

\* The restic process ends by itself: with exit code 0 after writing the
\* whole file, or with a nonzero code, `left` chunks of its output being
\* still in the pipe.
ProcExit(t, code, left) ==
    /\ threads[t].pc \in {"streaming", "closing"}
    /\ resticProc[t] = "running"
    /\ left <= threads[t].remaining
    /\ code = 0 => left = threads[t].remaining
    /\ resticProc' = [resticProc EXCEPT ![t] = "exited"]
    /\ threads' = [threads EXCEPT ![t].exitCode = code, ![t].remaining = left]
    /\ UNCHANGED <<localFile, last>>
    /\ DumpUnchanged

\* ReadFile returns a chunk: one round of the loop.
GetFileChunk(t, writeOk, answer) ==
    LET o == RunResticDump_Chunk(threads[t], localFile[t], writeOk, answer)
    IN  /\ threads[t].pc = "streaming"
        /\ threads[t].remaining > 0
        /\ threads' = [threads EXCEPT ![t] = o.th]
        /\ localFile' = [localFile EXCEPT ![t] = o.file]
        /\ UNCHANGED <<resticProc, last>>
        /\ DumpUnchanged

\* ReadFile fails or reads nothing: the process has ended and the pipe is
\* empty.
GetFileEof(t) ==
    /\ threads[t].pc = "streaming"
    /\ threads[t].remaining = 0
    /\ resticProc[t] = "exited"
    /\ threads' = [threads EXCEPT ![t].pc = "closing"]
    /\ UNCHANGED <<localFile, resticProc, last>>
    /\ DumpUnchanged

\* RunResticDump from the end of its loop, and the return of FsGetFile.
GetFileEnd(t) ==
    LET th == threads[t]
        e == RunResticDump_End(th.aborted, localFile[t], resticProc[t], th.exitCode)
    IN  /\ th.pc = "closing"
        /\ threads' = [threads EXCEPT ![t] = Returned([th EXCEPT !.exitCode = e.exitCode],
                                                      DumpReturn(e.ok, th.pudAborted))]
        /\ localFile' = [localFile EXCEPT ![t] = e.file]
        /\ resticProc' = [resticProc EXCEPT ![t] = e.proc]
        /\ UNCHANGED last
        /\ DumpUnchanged

NextDump ==
    \/ \E t \in ThreadIds, chunks \in 0..MaxChunks,
          overwrite, firstAbort, createProcessOk, createFileOk \in BOOLEAN :
          GetFileBegin(t, chunks, overwrite, firstAbort, createProcessOk, createFileOk)
    \/ \E t \in ThreadIds, code \in {0, 1}, left \in 0..MaxChunks : ProcExit(t, code, left)
    \/ \E t \in ThreadIds, writeOk, answer \in BOOLEAN : GetFileChunk(t, writeOk, answer)
    \/ \E t \in ThreadIds : GetFileEof(t)
    \/ \E t \in ThreadIds : GetFileEnd(t)

SpecDump == InitDump /\ [][NextDump]_vars

\* The call of thread t has returned and, while it ran, the user answered a
\* progress callback of the dump with abort.
AbortedInDump(t) == threads[t].pc = "returned" /\ threads[t].answered

\* C24: after a file request in which the user aborted through the progress
\* callback of the dump, the restic process of the request is not running
\* (it was terminated, or had ended by itself), the destination file does not
\* exist, and the request returned FS_FILE_USERABORT, not FS_FILE_READERROR.
C24_AbortTerminatesAndDeletes ==
    \A t \in ThreadIds :
        AbortedInDump(t) =>
            /\ resticProc[t] \in {"terminated", "exited"}
            /\ localFile[t] = Absent
            /\ threads[t].result = "FS_FILE_USERABORT"

\* C24 witness: the user aborted after the second chunk was written, the
\* process was still running and was terminated.
C24_Witness ==
    \E t \in ThreadIds :
        /\ AbortedInDump(t)
        /\ threads[t].totalWritten = 2
        /\ resticProc[t] = "terminated"

-----------------------------------------------------------------------------
(* SpecConn: LsCache_Lookup and LsCache_Store on databases whose opening or  *)
(* schema creation can fail, each call opening the database as GetConnection *)
(* does, and directory listings asked for while the opening keeps failing.   *)

MaxConnCalls == 3

ConnShortId == Snap1.shortId
ConnPath == PathOf(<< <<CH_a>> >>)

\* What the environment answers to one call of GetConnection: the results of
\* up to three sqlite3_open and two CreateSchema calls, of PrepareStatements,
\* and of DeleteFileA (whose result the code does not read).
ConnAnswers ==
    [opens : [1..3 -> BOOLEAN], schemas : [1..2 -> BOOLEAN],
     prepareOk : BOOLEAN, deleteOk : BOOLEAN]

\* The arrays stored: none, or the file a.
ConnArrays == {a \in StoreArrays : Len(a) <= 1}

InitConn ==
    /\ IdleInit
    /\ resticSnaps = [r \in Repos |-> {Snap1}]
    /\ resticTree = [r \in Repos |-> [s \in AllIds |-> FileListing]]
    /\ shadow = [r \in Repos |-> [gaveUp |-> FALSE]]
    /\ lastFetch = [r \in Repos |-> NeverFetched]

\* The tables of a repository after a call that deleted the database file
\* `deletes` times: a file that was deleted holds no row.
AfterDeletes(rows, deletes, deleteOk) == IF deletes > 0 /\ deleteOk THEN {} ELSE rows

\* What is recorded of the opening of the last call.
Opening(r, env, c) ==
    [hadConn |-> r \in g_Dbs, conn |-> c.conn, deletes |-> c.deletes, opened |-> c.opened,
     openFailed |-> r \notin g_Dbs /\ ~env.opens[1],
     schemaFailed |-> r \notin g_Dbs /\ (env.opens[1] \/ env.opens[2]) /\ ~env.schemas[1],
     retryWorks |-> /\ env.prepareOk
                    /\ \/ ~env.opens[1] /\ env.opens[2] /\ env.schemas[1]
                       \/ env.opens[1] /\ ~env.schemas[1] /\ env.opens[2] /\ env.schemas[2],
     pre |-> [dirs |-> cached_dirs[r], ents |-> dir_entries[r], dbs |-> g_Dbs],
     wiped |-> c.deletes > 0 /\ env.deleteOk]

ConnUnchanged ==
    UNCHANGED <<batch, threads, localFile, resticProc, now, g_Initialized,
                resticSnaps, resticTree, lastFetch>>

\* LsCache_Lookup(r, "1", "/a").
ConnLookup(r, env) ==
    LET c == GetConnectionSteps(g_Dbs, r, env.opens, env.schemas, env.prepareOk)
        dirs == AfterDeletes(cached_dirs[r], c.deletes, env.deleteOk)
        ents == AfterDeletes(dir_entries[r], c.deletes, env.deleteOk)
    IN  /\ last.n < MaxConnCalls
        /\ g_Dbs' = c.dbs
        /\ cached_dirs' = [cached_dirs EXCEPT ![r] = dirs]
        /\ dir_entries' = [dir_entries EXCEPT ![r] = ents]
        /\ shadow' = [shadow EXCEPT ![r].gaveUp = @ \/ c.conn = NULL]
        /\ \E res \in (IF c.conn = NULL THEN {LookupMiss}
                       ELSE LsCache_Lookup(g_Initialized, dirs, ents, r, ConnShortId, ConnPath)) :
              last' = [op |-> "Lookup", n |-> last.n + 1, repo |-> r,
                       o |-> Opening(r, env, c), state |-> CallerState(res)]
        /\ UNCHANGED <<g_SnapCache, g_LsCache, loadedSnaps, hasPassword>>
        /\ ConnUnchanged

\* LsCache_Store(r, "1", "/a", a, Len(a)), every statement succeeding.
ConnStore(r, a, env) ==
    LET c == GetConnectionSteps(g_Dbs, r, env.opens, env.schemas, env.prepareOk)
        dirs == AfterDeletes(cached_dirs[r], c.deletes, env.deleteOk)
        ents == AfterDeletes(dir_entries[r], c.deletes, env.deleteOk)
        t == IF c.conn = NULL THEN [dirs |-> dirs, ents |-> ents]
             ELSE LsCache_Store(g_Initialized, dirs, ents, r, ConnShortId, ConnPath, a, Len(a))
    IN  /\ last.n < MaxConnCalls
        /\ g_Dbs' = c.dbs
        /\ cached_dirs' = [cached_dirs EXCEPT ![r] = t.dirs]
        /\ dir_entries' = [dir_entries EXCEPT ![r] = t.ents]
        /\ shadow' = [shadow EXCEPT ![r].gaveUp = @ \/ c.conn = NULL]
        /\ last' = [op |-> "Store", n |-> last.n + 1, repo |-> r,
                    o |-> Opening(r, env, c), state |-> "none"]
        /\ UNCHANGED <<g_SnapCache, g_LsCache, loadedSnaps, hasPassword>>
        /\ ConnUnchanged

\* GetSnapshotContents of \r\a\<snapshot 1>\subpath while r has no connection
\* and every sqlite3_open of the request fails: each call into ls_cache.c
\* returns at its connection test, the statement after its g_Initialized
\* test, which is what init FALSE stands for here.
ConnList(r, subpath, runLs, deleteOk) ==
    LET path == BuildLsSubpath(Snap1.paths[1], subpath)
        inMemory == FindLsSlot(g_LsCache, ConnShortId, path) # 0
        deletes == IF inMemory THEN 0 ELSE 1
        st == [St(r) EXCEPT !.init = FALSE,
                            !.dirs = AfterDeletes(@, deletes, deleteOk),
                            !.ents = AfterDeletes(@, deletes, deleteOk)]
    IN  /\ last.n < MaxConnCalls
        /\ r \notin g_Dbs
        /\ \E o \in GetSnapshotContents(st, Env(r, "ok", runLs), r,
                                        SanitizePath(Snap1.paths[1]), DisplayName(Snap1), subpath) :
              /\ g_SnapCache' = o.st.snapCache
              /\ g_LsCache' = o.st.lsCache
              /\ hasPassword' = [hasPassword EXCEPT ![r] = o.st.hasPassword]
              /\ cached_dirs' = [cached_dirs EXCEPT ![r] = o.st.dirs]
              /\ dir_entries' = [dir_entries EXCEPT ![r] = o.st.ents]
              /\ loadedSnaps' = o.st.loaded
              /\ last' = [op |-> "List", n |-> last.n + 1, repo |-> r, path |-> path,
                          inMemory |-> inMemory,
                          loaded |-> LsCache_IsSnapshotLoaded(loadedSnaps, r, ConnShortId),
                          runLs |-> runLs, runs |-> o.runs,
                          entries |-> o.entries, outCount |-> o.outCount,
                          memory |-> IF inMemory
                                     THEN g_LsCache[FindLsSlot(g_LsCache, ConnShortId, path)].entries
                                     ELSE <<>>]
        /\ shadow' = [shadow EXCEPT ![r].gaveUp = @ \/ ~inMemory]
        /\ UNCHANGED g_Dbs
        /\ ConnUnchanged

\* The answers that differ in something the call reads: a repository with a
\* connection reads none, the third open is read only after a failed open
\* and a failed schema, and a call whose opens both fail reads nothing else.
ConnHeard(r, env) ==
    LET allTrue(f) == \A i \in DOMAIN f : f[i]
    IN  /\ r \in g_Dbs => allTrue(env.opens) /\ allTrue(env.schemas)
                             /\ env.prepareOk /\ env.deleteOk
        /\ env.opens[1] => env.opens[3]
        /\ (env.opens[1] /\ env.schemas[1]) => env.opens[2] /\ env.schemas[2] /\ env.deleteOk
        /\ (~env.opens[1] /\ ~env.opens[2]) =>
               env.opens[3] /\ allTrue(env.schemas) /\ env.prepareOk
        /\ (~env.opens[1] /\ env.schemas[1]) => env.opens[3] /\ env.schemas[2]

NextConn ==
    \/ \E r \in Repos, env \in ConnAnswers : ConnHeard(r, env) /\ ConnLookup(r, env)
    \/ \E r \in Repos, a \in ConnArrays, env \in ConnAnswers :
          ConnHeard(r, env) /\ ConnStore(r, a, env)
    \/ \E r \in Repos, subpath \in Subpaths, runLs \in RunOutcomes, deleteOk \in BOOLEAN :
          ConnList(r, subpath, runLs, deleteOk)

SpecConn == InitConn /\ [][NextConn]_vars

\* The last call was a lookup or a store that had to open the database.
Opened == last.op \in {"Lookup", "Store"} /\ ~last.o.hadConn

\* A call that got no connection: a lookup reports unknown, a store writes
\* nothing, and g_Dbs is as before.
FailedCallDoesNothing ==
    (last.op \in {"Lookup", "Store"} /\ last.o.conn = NULL) =>
        /\ last.op = "Lookup" => last.state = "unknown"
        /\ cached_dirs[last.repo] = (IF last.o.wiped THEN {} ELSE last.o.pre.dirs)
        /\ dir_entries[last.repo] = (IF last.o.wiped THEN {} ELSE last.o.pre.ents)
        /\ g_Dbs = last.o.pre.dbs

\* A listing asked for while the database cannot be opened: it is the
\* in-memory entry when there is one; else, the snapshot not being marked
\* loaded and restic ls succeeding, it is the children the backend lists.
ListingStillAnswered ==
    last.op = "List" =>
        /\ last.inMemory => last.entries = last.memory /\ "ls" \notin SeqToSet(last.runs)
        /\ (~last.inMemory /\ ~last.loaded /\ last.runLs = "ok") =>
              /\ "ls" \in SeqToSet(last.runs)
              /\ SeqToSet(last.entries)
                    = ChildrenIn(resticTree[last.repo][ConnShortId], last.path)
              /\ last.outCount = Len(last.entries)

C25_WitnessTwoAttempts == Opened /\ last.o.deletes = 2

\* A repository whose opening had failed holds rows stored by a later call.
C25_WitnessReenabled ==
    \E r \in Repos : shadow[r].gaveUp /\ r \in g_Dbs /\ cached_dirs[r] # {}

\* A listing was answered by the backend while the database could not be
\* opened.
C25_WitnessListing ==
    /\ last.op = "List"
    /\ ~last.inMemory
    /\ "ls" \in SeqToSet(last.runs)
    /\ last.outCount > 0

-----------------------------------------------------------------------------
(* wfx_interface.c: the backup paths of a repository as folders *)

\* A faulty duplicate test, for comparison: no name was seen before.
IsDuplicate_Never(seen, seenCount, sanitized) == FALSE

\* Lines 404-409: the search of seen[0..seenCount-1].
IsDuplicate(seen, seenCount, sanitized) ==
    \E k \in 1..seenCount : strcmp(seen[k], sanitized) = 0

\* The body of the two loops of GetPathEntries from path j of snapshot i on;
\* acc is [seen, entries].
RECURSIVE PathEntriesLoop(_, _, _, _, _, _)
PathEntriesLoop(snapshots, numSnaps, i, j, ftNow, acc) ==
    IF i > numSnaps THEN acc
    ELSE IF j > Len(snapshots[i].paths)
    THEN PathEntriesLoop(snapshots, numSnaps, i + 1, 1, ftNow, acc)
    ELSE LET sanitized == SanitizePath(snapshots[i].paths[j])
         IN  PathEntriesLoop(snapshots, numSnaps, i, j + 1, ftNow,
                 IF IsDuplicate(acc.seen, Len(acc.seen), sanitized) THEN acc
                 ELSE [seen |-> Append(acc.seen, sanitized),
                       entries |-> AddEntry(acc.entries, sanitized, TRUE, 0, 0, ftNow)])

\* GetPathEntries after its call of FetchSnapshots returned numSnaps
\* snapshots: [entries, outCount].
GetPathEntries(snapshots, numSnaps, ftNow) ==
    IF numSnaps = 0 THEN [entries |-> <<>>, outCount |-> 0]
    ELSE LET acc == PathEntriesLoop(snapshots, numSnaps, 1, 1, ftNow,
                                    [seen |-> <<>>, entries |-> <<>>])
         IN  [entries |-> acc.entries, outCount |-> Len(acc.entries)]

-----------------------------------------------------------------------------
(* SpecPaths: the host lists \r1 of repositories whose snapshots back up     *)
(* paths that differ and sanitize to the same name.                          *)

MaxPathCalls == 2

\* /a, a:, /a/b and /a_b: the first two sanitize to a, the last two to a_b.
BackupPaths ==
    {<<CH_SLASH, CH_a>>, <<CH_a, CH_COLON>>,
     <<CH_SLASH, CH_a, CH_SLASH, CH_b>>, <<CH_SLASH, CH_a, CH_UNDERSCORE, CH_b>>}

\* The "paths" arrays of a snapshot: one or two backup paths.
PathArrays == UNION {[1..n -> BackupPaths] : n \in 1..2}

\* The repositories: no snapshot, snapshot 1, or snapshots 1 and 2.
PathRepos ==
    {{}} \cup {{ResticSnapshot(<<CH_1>>, <<CH_1>>, p)} : p \in PathArrays}
         \cup {{ResticSnapshot(<<CH_1>>, <<CH_1>>, p), ResticSnapshot(<<CH_2>>, <<CH_2>>, q)}
               : p \in PathArrays, q \in PathArrays}

InitPaths ==
    /\ IdleInit
    /\ resticSnaps \in [Repos -> PathRepos]
    /\ resticSnaps["r2"] = {}
    /\ resticTree = [r \in Repos |-> [s \in AllIds |-> <<>>]]
    /\ shadow = [r \in Repos |-> [s \in AllIds |-> 0]]
    /\ lastFetch = [r \in Repos |-> NeverFetched]

\* GetEntriesForPath on \r: the password, then GetPathEntries.
ListPaths(r, entered, run) ==
    /\ last.n < MaxPathCalls
    /\ LET pw == RepoStore_EnsurePassword(hasPassword[r], entered)
       IN  IF ~pw.ok THEN Cancelled(r)
           ELSE \E f \in FetchSnapshots(now, g_SnapCache, g_Initialized, cached_dirs[r],
                                        dir_entries[r], pw.hasPassword, r, run, resticSnaps[r]) :
                  LET o == GetPathEntries(f.snapshots, f.numSnaps, FileTime(0, 0))
                  IN  /\ g_SnapCache' = f.cache
                      /\ hasPassword' = [hasPassword EXCEPT ![r] = f.hasPassword]
                      /\ cached_dirs' = [cached_dirs EXCEPT ![r] = f.dirs]
                      /\ dir_entries' = [dir_entries EXCEPT ![r] = f.ents]
                      /\ last' = [op |-> "GetPathEntries", n |-> last.n + 1, repo |-> r,
                                  snapshots |-> f.snapshots, entries |-> o.entries,
                                  outCount |-> o.outCount]
                      /\ UNCHANGED <<conc, batch, now, g_LsCache, g_Initialized, loadedSnaps,
                                     resticSnaps, resticTree, shadow, lastFetch>>

NextPaths ==
    \/ \E entered \in BOOLEAN, run \in RunOutcomes : ListPaths("r1", entered, run)
    \/ RefreshSnapshotList("r1")

SpecPaths == InitPaths /\ [][NextPaths]_vars

\* The backup paths of the snapshots of a list, as written in the snapshots.
OriginalPaths(list) ==
    UNION {{list[i].paths[j] : j \in 1..Len(list[i].paths)} : i \in 1..Len(list)}

-----------------------------------------------------------------------------
(* wfx_interface.c: a path below [All Files] with a version component *)

\* strstr: index of the first occurrence of needle in hay, 0 when there is
\* none.
strstr(hay, needle) ==
    LET hits == {i \in 1..(Len(hay) - Len(needle) + 1) :
                    SubSeq(hay, i, i + Len(needle) - 1) = needle}
    IN  IF hits = {} THEN 0 ELSE CHOOSE i \in hits : \A j \in hits : i <= j

\* FindVersionComponent: the index in rest of the first component that starts
\* with VERSION_PREFIX, 0 (NULL) when there is none.
FindVersionComponent(rest) ==
    IF rest = <<>> THEN 0
    ELSE IF HasVersionPrefix(rest) THEN 1
    ELSE LET p == strstr(rest, <<CH_BACKSLASH>> \o VERSION_PREFIX)
         IN  IF p = 0 THEN 0 ELSE p + 1

\* A faulty split, for comparison: what follows the component is dropped.
SplitAtVersionComponent_NoAfter(rest) ==
    [pathBefore |-> <<>>, vFileName |-> StripVersionPrefix(rest), afterVersion |-> <<>>]

\* SplitAtVersionComponent: [pathBefore, vFileName, afterVersion].
SplitAtVersionComponent(rest) ==
    LET vComp == FindVersionComponent(rest)
        len == IF vComp - 1 - 1 < 0 THEN 0 ELSE vComp - 1 - 1
        pathBefore == IF vComp > 1 THEN SubSeq(rest, 1, len) ELSE <<>>
        afterPrefix == SubSeq(rest, vComp + VERSION_PREFIX_LEN, Len(rest))
        nextSep == strchr(afterPrefix, CH_BACKSLASH)
    IN  IF vComp = 0 THEN [pathBefore |-> <<>>, vFileName |-> <<>>, afterVersion |-> <<>>]
        ELSE IF nextSep # 0
        THEN [pathBefore |-> pathBefore,
              vFileName |-> SubSeq(afterPrefix, 1, nextSep - 1),
              afterVersion |-> SubSeq(afterPrefix, nextSep + 1, Len(afterPrefix))]
        ELSE [pathBefore |-> pathBefore, vFileName |-> afterPrefix, afterVersion |-> <<>>]

\* GetEntriesForPath on \repo\seg2\[All Files]\rest, after the password
\* (lines 1209-1228): the set of outcomes [st, entries, outCount, runs,
\* branch, filePath]; branch names the listing function called and filePath
\* is the path handed to GetFileVersions.  env is [runSnapshots, json, runLs,
\* tree, runFind, found].
AllFilesEntries(st, env, repoName, seg2, rest) ==
    LET vComp == FindVersionComponent(rest)
        sp == SplitAtVersionComponent(rest)
        filePath == IF sp.pathBefore # <<>>
                    THEN sp.pathBefore \o <<CH_BACKSLASH>> \o sp.vFileName
                    ELSE sp.vFileName
        out(o, branch, fp) ==
            [st |-> o.st, entries |-> o.entries, outCount |-> o.outCount, runs |-> o.runs,
             branch |-> branch, filePath |-> fp]
    IN  IF vComp # 0
        THEN (IF sp.afterVersion = <<>>
              THEN {out(o, "GetFileVersions", filePath)
                    : o \in GetFileVersions(st, env, repoName, seg2, filePath)}
              ELSE {[st |-> st, entries |-> <<>>, outCount |-> 0, runs |-> <<>>,
                     branch |-> "none", filePath |-> <<>>]})
        ELSE {out(o, "GetAllFilesContents", <<>>)
              : o \in GetAllFilesContents(st, env, repoName, seg2, rest)}

-----------------------------------------------------------------------------
(* SpecMarker: the host lists paths below \r1\a\[All Files] whose components *)
(* are a folder, the versions of a file, and a chosen version.               *)

MaxMarkerCalls == 2

\* The components of a remainder: the name a, the version folder of the file
\* a, and the display name of a version.
VersionName == VersionDisplayName(ResticFindEntry(<<CH_1>>, PathOf(<< <<CH_a>> >>), 5, 0,
                                                  FindTime(1601, 1, 1, 0, 0, 7, 1)))
MarkerComponents == {<<CH_a>>, VERSION_PREFIX \o <<CH_a>>, VersionName}

\* Components joined by single backslashes.
RECURSIVE JoinBackslash(_)
JoinBackslash(comps) ==
    IF Len(comps) = 0 THEN <<>>
    ELSE IF Len(comps) = 1 THEN comps[1]
    ELSE comps[1] \o <<CH_BACKSLASH>> \o JoinBackslash(Tail(comps))

\* The remainders the host sends: one to three components, with or without a
\* closing backslash.  The host enters the names it was shown, so the name of
\* a version comes right after a version folder.
MarkerRests ==
    LET lists == {c \in UNION {[1..n -> MarkerComponents] : n \in 1..3} :
                     \A i \in 1..Len(c) :
                         c[i] = VersionName => i > 1 /\ c[i - 1] = VERSION_PREFIX \o <<CH_a>>}
    IN  {JoinBackslash(c) : c \in lists} \cup {JoinBackslash(c) \o <<CH_BACKSLASH>> : c \in lists}

\* The arrays restic find returns here: none or one match.
MarkerFound == {f \in FindOutputs : Len(f) <= 1}

InitMarker ==
    /\ IdleInit
    /\ resticSnaps = [r \in Repos |-> IF r = "r1" THEN {Snap1, Snap2} ELSE {}]
    /\ resticTree = [r \in Repos |-> [s \in AllIds |-> FileListing]]
    /\ shadow = [r \in Repos |-> [s \in AllIds |-> 0]]
    /\ lastFetch = [r \in Repos |-> NeverFetched]

\* GetEntriesForPath on \r\a\[All Files]\rest.
ListAllFiles(r, rest, entered, runSnapshots, runLs, runFind, found) ==
    /\ last.n < MaxMarkerCalls
    /\ LET pw == RepoStore_EnsurePassword(hasPassword[r], entered)
           env == [runSnapshots |-> runSnapshots, json |-> resticSnaps[r], runLs |-> runLs,
                   tree |-> resticTree[r], runFind |-> runFind, found |-> found]
       IN  IF ~pw.ok THEN Cancelled(r)
           ELSE \E o \in AllFilesEntries([St(r) EXCEPT !.hasPassword = pw.hasPassword], env, r,
                                         SanitizePath(Snap1.paths[1]), rest) :
                  /\ g_SnapCache' = o.st.snapCache
                  /\ g_LsCache' = o.st.lsCache
                  /\ hasPassword' = [hasPassword EXCEPT ![r] = o.st.hasPassword]
                  /\ cached_dirs' = [cached_dirs EXCEPT ![r] = o.st.dirs]
                  /\ dir_entries' = [dir_entries EXCEPT ![r] = o.st.ents]
                  /\ loadedSnaps' = o.st.loaded
                  /\ last' = [op |-> "ListAllFiles", n |-> last.n + 1, repo |-> r, rest |-> rest,
                              entries |-> o.entries, outCount |-> o.outCount, runs |-> o.runs,
                              branch |-> o.branch, filePath |-> o.filePath,
                              found |-> IF "find" \in SeqToSet(o.runs) /\ runFind = "ok"
                                        THEN found ELSE <<>>]
                  /\ UNCHANGED <<conc, batch, now, g_Initialized, resticSnaps, resticTree,
                                 shadow, lastFetch>>

\* The inputs that differ in something the request reads: restic find is run
\* for a remainder that ends in a version folder only, restic ls for one
\* without a version folder only.
MarkerAsked(rest, runLs, runFind, found) ==
    LET sp == SplitAtVersionComponent(rest)
        versions == FindVersionComponent(rest) # 0 /\ sp.afterVersion = <<>>
        merged == FindVersionComponent(rest) = 0
    IN  /\ ~versions => runFind = "ok" /\ found = <<>>
        /\ ~merged => runLs = "ok"

NextMarker ==
    \E rest \in MarkerRests, entered \in BOOLEAN, runSnapshots \in {"ok", "failed"},
       runLs \in {"ok", "failed"}, runFind \in {"ok", "failed"}, found \in MarkerFound :
        /\ MarkerAsked(rest, runLs, runFind, found)
        /\ ListAllFiles("r1", rest, entered, runSnapshots, runLs, runFind, found)

SpecMarker == InitMarker /\ [][NextMarker]_vars

\* The components of a path: the pieces between its backslashes.
RECURSIVE SplitBackslash(_)
SplitBackslash(path) ==
    LET k == strchr(path, CH_BACKSLASH)
    IN  IF k = 0 THEN <<path>>
        ELSE <<SubSeq(path, 1, k - 1)>> \o SplitBackslash(SubSeq(path, k + 1, Len(path)))

\* The position of the first version folder among the components of the last
\* request's remainder, 0 when there is none.
MarkerAt ==
    LET c == SplitBackslash(last.rest)
        hits == {i \in 1..Len(c) : /\ Len(c[i]) >= VERSION_PREFIX_LEN
                                    /\ SubSeq(c[i], 1, VERSION_PREFIX_LEN) = VERSION_PREFIX}
    IN  IF hits = {} THEN 0 ELSE CHOOSE i \in hits : \A j \in hits : i <= j

\* A non-empty component follows the version folder.
VersionChosen ==
    LET c == SplitBackslash(last.rest)
    IN  MarkerAt # 0 /\ \E j \in (MarkerAt + 1)..Len(c) : c[j] # <<>>

\* The path of the file whose version folder the remainder ends in.
VersionedFile ==
    LET c == SplitBackslash(last.rest)
        name == SubSeq(c[MarkerAt], VERSION_PREFIX_LEN + 1, Len(c[MarkerAt]))
    IN  JoinBackslash(SubSeq(c, 1, MarkerAt - 1) \o <<name>>)

\* C27: a listing below [All Files] whose remainder holds a version folder
\* followed by a non-empty component is empty and runs no backend command;
\* when nothing follows the version folder, the versions of that file are
\* listed: GetFileVersions is called with the file's path, and when restic
\* find succeeds the listing holds one entry for each of its matches that is
\* the first with its time.
C27_ChosenVersionListsNothing ==
    last.op = "ListAllFiles" =>
        /\ VersionChosen =>
              last.entries = <<>> /\ last.outCount = 0 /\ last.runs = <<>>
        /\ (MarkerAt # 0 /\ ~VersionChosen) =>
              /\ last.branch = "GetFileVersions"
              /\ last.filePath = VersionedFile
              /\ "ls" \notin SeqToSet(last.runs)
              /\ last.outCount = Len(FirstOfTime(last.found))
              /\ last.outCount = Len(last.entries)

\* C27 witness: the host listed a chosen version below a folder.
C27_Witness ==
    /\ last.op = "ListAllFiles"
    /\ VersionChosen
    /\ MarkerAt = 2
    /\ last.runs = <<>>

\* The versions of a file in a folder were listed.
C27_WitnessVersions ==
    /\ last.op = "ListAllFiles"
    /\ MarkerAt = 2
    /\ ~VersionChosen
    /\ last.outCount = 1

-----------------------------------------------------------------------------
(* SpecThreads: a multi-threaded get.  The host brackets the transfer with   *)
(* FS_STATUS_START and FS_STATUS_END (FS_STATUS_OP_GET_MULTI_THREAD) and     *)
(* calls FsGetFile from two threads.  g_BatchRestore is read and written     *)
(* without a lock, so the steps of the two calls interleave at every access  *)
(* to it.                                                                    *)

MaxThreadCalls == 3

\* A thread inside FsGetFile: where it stands, the restic path it resolved and
\* the restoreOk it holds.
InGetFile(pc, resticPath, restoreOk) ==
    [pc |-> pc, resticPath |-> resticPath, restoreOk |-> restoreOk]

AllIdle == \A t \in ThreadIds : threads[t].pc = "idle"

ThreadUnchanged ==
    UNCHANGED <<localFile, resticProc, g_Dbs, now, g_LsCache, g_Initialized, loadedSnaps,
                resticSnaps, resticTree, lastFetch>>

\* What a step inside FsGetFile leaves alone besides the session.
StepUnchanged ==
    /\ ThreadUnchanged
    /\ UNCHANGED <<g_SnapCache, hasPassword, cached_dirs, dir_entries>>

\* FsStatusInfo(..., FS_STATUS_START, FS_STATUS_OP_GET_MULTI_THREAD) on the
\* snapshot folder of r1, before the host starts its threads.
ThreadedStart(entered, runSnapshots, rnd) ==
    /\ last.n < MaxThreadCalls
    /\ ~shadow.open
    /\ AllIdle
    /\ \E o \in FsStatusInfo_Start(St("r1"), BatchEnv(runSnapshots, "norun", "failed"),
                                   g_BatchRestore, tempDirs, "GET_MULTI_THREAD", "r1",
                                   SanitizePath(Snap1.paths[1]), DisplayName(Snap1), <<>>,
                                   entered, rnd) :
          /\ g_BatchRestore' = o.b
          /\ tempDirs' = o.fs
          /\ g_SnapCache' = o.st.snapCache
          /\ hasPassword' = [hasPassword EXCEPT !["r1"] = o.st.hasPassword]
          /\ cached_dirs' = [cached_dirs EXCEPT !["r1"] = o.st.dirs]
          /\ dir_entries' = [dir_entries EXCEPT !["r1"] = o.st.ents]
          /\ shadow' = IF o.opened THEN Transfer(TRUE, o.b.tempDir, FALSE)
                       ELSE Transfer(TRUE, <<>>, shadow.sessionRestored)
          /\ last' = [op |-> "Start", n |-> last.n + 1, t |-> 0, result |-> None]
    /\ UNCHANGED threads
    /\ ThreadUnchanged

\* FsStatusInfo(..., FS_STATUS_END, FS_STATUS_OP_GET_MULTI_THREAD), after the
\* host's threads have returned.
ThreadedEnd ==
    /\ shadow.open
    /\ AllIdle
    /\ g_BatchRestore' = BatchEnd(g_BatchRestore, tempDirs).b
    /\ tempDirs' = BatchEnd(g_BatchRestore, tempDirs).fs
    /\ shadow' = Transfer(FALSE, <<>>, shadow.sessionRestored)
    /\ last' = [op |-> "End", n |-> last.n, t |-> 0, result |-> None]
    /\ UNCHANGED threads
    /\ StepUnchanged

\* FsGetFile up to line 1576 on thread t: the checks, the path and the first
\* progress report.
GetEnter(t, rest, early, entered, runSnapshots) ==
    /\ last.n < MaxThreadCalls
    /\ shadow.open
    /\ threads[t].pc = "idle"
    /\ IF early = "resume" \/ early = "exists"
       THEN /\ last' = [op |-> "Return", n |-> last.n + 1, t |-> t,
                        result |-> IF early = "resume" THEN "FS_FILE_NOTSUPPORTED"
                                   ELSE "FS_FILE_EXISTS"]
            /\ UNCHANGED <<threads, g_SnapCache, hasPassword, cached_dirs, dir_entries>>
       ELSE \E r \in ResolveRemotePath(St("r1"), BatchEnv(runSnapshots, "norun", "failed"), "r1",
                                       SanitizePath(Snap1.paths[1]), DisplayName(Snap1), rest,
                                       entered) :
               /\ g_SnapCache' = r.st.snapCache
               /\ hasPassword' = [hasPassword EXCEPT !["r1"] = r.st.hasPassword]
               /\ cached_dirs' = [cached_dirs EXCEPT !["r1"] = r.st.dirs]
               /\ dir_entries' = [dir_entries EXCEPT !["r1"] = r.st.ents]
               /\ IF ~r.ok \/ early = "abort"
                  THEN /\ last' = [op |-> "Return", n |-> last.n + 1, t |-> t,
                                   result |-> IF ~r.ok THEN "FS_FILE_NOTFOUND"
                                              ELSE "FS_FILE_USERABORT"]
                       /\ UNCHANGED threads
                  ELSE /\ threads' = [threads EXCEPT
                                        ![t] = InGetFile("test", r.resticPath, FALSE)]
                       /\ last' = [op |-> "Enter", n |-> last.n + 1, t |-> t, result |-> None]
    /\ UNCHANGED <<batch, shadow>>
    /\ ThreadUnchanged

\* Line 1580: thread t reads pending and active.
TestPending(t) ==
    /\ threads[t].pc = "test"
    /\ threads' = [threads EXCEPT
                     ![t].pc = IF g_BatchRestore.pending /\ ~g_BatchRestore.active
                               THEN "clear" ELSE "serve"]
    /\ last' = [last EXCEPT !.op = "TestPending", !.t = t, !.result = None]
    /\ UNCHANGED <<batch, shadow>>
    /\ StepUnchanged

\* Line 1607: g_BatchRestore.pending = FALSE.
ClearedPending(b) == [b EXCEPT !.pending = FALSE]

ClearPending(t) ==
    /\ threads[t].pc = "clear"
    /\ g_BatchRestore' = ClearedPending(g_BatchRestore)
    /\ threads' = [threads EXCEPT ![t].pc = "restore"]
    /\ last' = [last EXCEPT !.op = "ClearPending", !.t = t, !.result = None]
    /\ UNCHANGED <<tempDirs, shadow>>
    /\ StepUnchanged

\* Lines 1610-1614: thread t runs restic restore into the session's directory.
RestoreRun(t, run) ==
    /\ threads[t].pc = "restore"
    /\ LET r == RunResticRestore(tempDirs, run, HeldFiles,
                                 IncludePath(g_BatchRestore.resticPrefix, threads[t].resticPath),
                                 g_BatchRestore.tempDir)
       IN  /\ tempDirs' = r.fs
           /\ threads' = [threads EXCEPT ![t].pc = "activate", ![t].restoreOk = r.ok]
           /\ shadow' = [shadow EXCEPT !.attempts = @ + 1,
                                       !.restored = @ \/ r.ok,
                                       !.sessionRestored = @ \/ r.ok,
                                       !.failed = @ \/ ~r.ok]
    /\ last' = [last EXCEPT !.op = "RestoreRun", !.t = t, !.result = None]
    /\ UNCHANGED g_BatchRestore
    /\ StepUnchanged

\* Lines 1616-1618: a successful restore makes the session active.
SetActive(t) ==
    /\ threads[t].pc = "activate"
    /\ g_BatchRestore' = [g_BatchRestore EXCEPT
                            !.active = IF threads[t].restoreOk THEN TRUE ELSE @]
    /\ threads' = [threads EXCEPT ![t].pc = "serve"]
    /\ last' = [last EXCEPT !.op = "SetActive", !.t = t, !.result = None]
    /\ UNCHANGED <<tempDirs, shadow>>
    /\ StepUnchanged

\* Lines 1626-1675: the file is copied out of the session's directory or
\* fetched by restic dump, and FsGetFile returns.
Serve(t, copyOk, runDump) ==
    /\ threads[t].pc = "serve"
    /\ LET copied == /\ g_BatchRestore.active
                     /\ TempFileExists(tempDirs, g_BatchRestore.tempDir, threads[t].resticPath)
                     /\ copyOk
       IN  last' = [last EXCEPT !.op = "Return", !.t = t,
                                !.result = IF copied THEN "FS_FILE_OK" ELSE DumpResult(runDump)]
    /\ threads' = [threads EXCEPT ![t] = IdleThread]
    /\ UNCHANGED <<batch, shadow>>
    /\ StepUnchanged

NextThreads ==
    \/ \E entered \in BOOLEAN, runSnapshots \in RunOutcomes, rnd \in RandomValues :
          /\ Asked(entered, runSnapshots)
          /\ ThreadedStart(entered, runSnapshots, rnd)
    \/ ThreadedEnd
    \/ \E t \in ThreadIds, rest \in FileRests, early \in EarlyOutcomes, entered \in BOOLEAN,
          runSnapshots \in RunOutcomes :
          /\ Asked(entered, runSnapshots)
          /\ early \in {"resume", "exists"} => entered /\ runSnapshots = "ok"
          /\ GetEnter(t, rest, early, entered, runSnapshots)
    \/ \E t \in ThreadIds : TestPending(t)
    \/ \E t \in ThreadIds : ClearPending(t)
    \/ \E t \in ThreadIds, run \in {"ok", "failed"} : RestoreRun(t, run)
    \/ \E t \in ThreadIds : SetActive(t)
    \/ \E t \in ThreadIds, copyOk \in BOOLEAN, runDump \in DumpOutcomes : Serve(t, copyOk, runDump)

SpecThreads == InitBatch /\ [][NextThreads]_vars

\* C28: in a multi-threaded get, the bulk restore of a transfer is started at
\* most once: no transfer counts two runs of restic restore.
C28_RestoreStartedOnce ==
    shadow.open => shadow.attempts <= 1

\* Two threads run the restore of one transfer: both read pending before
\* either cleared it.
C28_WitnessBothRestore ==
    /\ shadow.open
    /\ shadow.attempts = 2
    /\ \A t \in ThreadIds : threads[t].pc = "activate"

-----------------------------------------------------------------------------
(* SpecLimit: a repository of many snapshots.  r1 holds 2, 256 or 257       *)
(* snapshots; the host lists them, listings of the newest, the 256th and the *)
(* 257th snapshot are stored in the persistent cache, time passes and the    *)
(* list is fetched again.                                                    *)

\* The k-th newest snapshot of the repository: short id k, and a time that
\* sorts before the time of every older one.
ManySnap(k) ==
    ResticSnapshot(Digits(k), ZeroPad(Digits(999 - k), 3), <<PathOf(<< <<CH_a>> >>)>>)

ManySnaps(n) == {ManySnap(k) : k \in 1..n}

\* The number of snapshots of r1, and the snapshots whose listings are stored.
SnapCounts == {2, 256, 257}
StoredSnaps == {1, 256, 257}

InitLimit ==
    /\ IdleInit
    /\ resticSnaps \in {[r \in Repos |-> IF r = "r1" THEN ManySnaps(n) ELSE {}] : n \in SnapCounts}
    /\ resticTree = [r \in Repos |-> <<>>]
    /\ shadow = 0
    /\ lastFetch = [r \in Repos |-> NeverFetched]

\* LsCache_Store of the listing a of the top folder of the k-th snapshot.
StoreListing(k, a) ==
    /\ last.n < MaxCalls
    /\ ManySnap(k) \in resticSnaps["r1"]
    /\ LET t == LsCache_Store(g_Initialized, cached_dirs["r1"], dir_entries["r1"], "r1",
                              ManySnap(k).shortId, ManySnap(k).paths[1], a, Len(a))
       IN  /\ cached_dirs' = [cached_dirs EXCEPT !["r1"] = t.dirs]
           /\ dir_entries' = [dir_entries EXCEPT !["r1"] = t.ents]
    /\ last' = [op |-> "Store", n |-> last.n + 1]
    /\ UNCHANGED <<conc, batch, now, g_SnapCache, g_LsCache, g_Initialized, loadedSnaps,
                   hasPassword, resticSnaps, resticTree, shadow, lastFetch>>

NextLimit ==
    \/ Tick
    \/ \E k \in StoredSnaps, a \in {PurgeListing, <<>>} : StoreListing(k, a)
    \/ \E run \in {"ok", "failed"}, ok \in BOOLEAN :
          (run = "failed" => ok) /\ FetchList(TRUE, run, ok, ok)

SpecLimit == InitLimit /\ [][NextLimit]_vars

\* The rows of the tables of r1 that belong to the snapshots of `list`.
RowsOfList(dirs, ents, list) ==
    {row \in dirs \cup ents : \E sn \in list : sn.shortId = row.short_id}

C29_NewestRowsKept ==
    Fetched =>
        LET snaps == lastFetch["r1"].snapshots
            newest == {snaps[i] : i \in 1..(IF Len(snaps) < 256 THEN Len(snaps) ELSE 256)}
        IN  RowsOfList(last.pre.dirs, last.pre.ents, newest)
                \subseteq (cached_dirs["r1"] \cup dir_entries["r1"])

\* A fetch of 257 snapshots found rows of the 257th and deleted them, while
\* the rows of the 256th are kept.
C29_WitnessOldestPurged ==
    /\ Fetched
    /\ Cardinality(last.list) = 257
    /\ \E row \in last.pre.dirs : row.short_id = ManySnap(257).shortId
    /\ \E row \in cached_dirs["r1"] : row.short_id = ManySnap(256).shortId
    /\ \A row \in cached_dirs["r1"] \cup dir_entries["r1"] :
          row.short_id # ManySnap(257).shortId

-----------------------------------------------------------------------------
(* SpecOther: r1 holds two snapshots of the same path with the same files.   *)
(* The host copies files out of the folder of the first inside multi-file    *)
(* transfers, and requests single files of either snapshot outside them; it  *)
(* can disconnect the plugin at any moment.                                  *)

InitOther ==
    /\ IdleInit
    /\ resticSnaps = [r \in Repos |-> IF r = "r1" THEN {Snap1, Snap2} ELSE {}]
    /\ resticTree = [r \in Repos |-> [s \in AllIds |-> <<>>]]
    /\ shadow = Transfer(FALSE, <<>>, FALSE)
    /\ lastFetch = [r \in Repos |-> NeverFetched]

\* FsGetFile on a file of the snapshot folder of sn.  last is what GetFile
\* leaves, with the short id of the snapshot asked for.
GetFileOf(sn, rest, early, entered, copyOk, runSnapshots, runRestore, runDump) ==
    /\ last.n < MaxBatchCalls
    /\ \E o \in FsGetFile(St("r1"), BatchEnv(runSnapshots, runRestore, runDump),
                          g_BatchRestore, tempDirs, "r1", SanitizePath(sn.paths[1]),
                          DisplayName(sn), rest, early, entered, copyOk) :
          /\ g_BatchRestore' = o.b
          /\ tempDirs' = o.fs
          /\ g_SnapCache' = o.st.snapCache
          /\ hasPassword' = [hasPassword EXCEPT !["r1"] = o.st.hasPassword]
          /\ cached_dirs' = [cached_dirs EXCEPT !["r1"] = o.st.dirs]
          /\ dir_entries' = [dir_entries EXCEPT !["r1"] = o.st.ents]
          /\ LET tried == "restore" \in SeqToSet(o.runs)
             IN  shadow' = [shadow EXCEPT
                              !.attempts = IF tried THEN @ + 1 ELSE @,
                              !.restored = @ \/ (tried /\ o.b.active),
                              !.sessionRestored = @ \/ (tried /\ o.b.active),
                              !.failed = @ \/ (tried /\ ~o.b.active)]
          /\ LET seen == Observed("GetFile", o, copyOk, runDump)
             IN  last' = [f \in DOMAIN seen \cup {"snap"} |->
                            IF f = "snap" THEN sn.shortId ELSE seen[f]]
    /\ UNCHANGED <<conc, now, g_LsCache, g_Initialized, loadedSnaps, resticSnaps, resticTree,
                   lastFetch>>

NextOther ==
    \/ Tick
    \/ \E entered \in BOOLEAN, runSnapshots \in RunOutcomes, rnd \in RandomValues :
          /\ Asked(entered, runSnapshots)
          /\ TransferStart("GET_MULTI", DisplayName(Snap1), entered, runSnapshots, rnd)
    \/ TransferEnd
    \/ \E sn \in AllSnaps, rest \in FileRests, early \in {"none", "abort"}, entered \in BOOLEAN,
          copyOk \in BOOLEAN, runSnapshots \in RunOutcomes, runRestore \in {"ok", "failed"},
          runDump \in DumpOutcomes :
          /\ shadow.open => sn = Snap1
          /\ Asked(entered, runSnapshots)
          /\ early # "none" => copyOk /\ runRestore = "ok" /\ runDump = "ok"
          /\ ~(g_BatchRestore.pending /\ ~g_BatchRestore.active) => runRestore = "ok"
          /\ GetFileOf(sn, rest, early, entered, copyOk, runSnapshots, runRestore, runDump)
    \/ Disconnect

SpecOther == InitOther /\ [][NextOther]_vars

\* C30: a file request answered from the restored copy of the session targets
\* the snapshot of the session: its short id is the one the session was
\* opened with.
C30_OwnSnapshotOnly ==
    (last.op = "GetFile" /\ last.served = "copy") => last.snap = last.pre.shortId

\* A request for a file of the second snapshot was answered with the copy
\* restored from the first.
C30_WitnessOtherSnapshot ==
    /\ last.op = "GetFile"
    /\ last.served = "copy"
    /\ last.result = "FS_FILE_OK"
    /\ last.snap = Snap2.shortId
    /\ last.pre.shortId = Snap1.shortId

-----------------------------------------------------------------------------
(* wfx_interface.c: a file request for a version below [All Files]           *)

\* ResolveRemotePath on \repoName\seg2\[All Files]\rest (lines 1458-1486): the
\* set of outcomes [ok, st, shortId, originalPath, resticPath, runs].
ResolveVersionPath(st, env, repoName, seg2, rest, entered) ==
    LET pw == RepoStore_EnsurePassword(st.hasPassword, entered)
        s1 == [st EXCEPT !.hasPassword = pw.hasPassword]
        vComp == FindVersionComponent(rest)
        sp == SplitAtVersionComponent(rest)
        id == ExtractShortId(sp.afterVersion)
        fileSubpath == IF sp.pathBefore # <<>>
                       THEN sp.pathBefore \o <<CH_BACKSLASH>> \o sp.vFileName
                       ELSE sp.vFileName
        fail(s, runs) == [ok |-> FALSE, st |-> s, shortId |-> <<>>,
                          originalPath |-> <<>>, resticPath |-> <<>>, runs |-> runs]
    IN  IF rest = <<>> \/ GetConnection(repoName) = NULL THEN {fail(st, <<>>)}
        ELSE IF ~pw.ok THEN {fail(s1, <<>>)}
        ELSE IF vComp = 0 \/ sp.afterVersion = <<>> THEN {fail(s1, <<>>)}
        ELSE IF ~id.ok THEN {fail(s1, <<>>)}
        ELSE {LET s2 == [s1 EXCEPT !.snapCache = f.cache, !.hasPassword = f.hasPassword,
                                   !.dirs = f.dirs, !.ents = f.ents]
                  fo == FindOriginalPath(f.snapshots, f.numSnaps, seg2)
              IN  IF ~fo.ok THEN fail(s2, f.runs)
                  ELSE [ok |-> TRUE, st |-> s2, shortId |-> id.shortId,
                        originalPath |-> fo.originalPath,
                        resticPath |-> BuildLsSubpath(fo.originalPath, fileSubpath),
                        runs |-> f.runs]
              : f \in FetchSnapshots(s1.now, s1.snapCache, s1.init, s1.dirs, s1.ents,
                                     s1.hasPassword, repoName, env.runSnapshots, env.json)}

-----------------------------------------------------------------------------
(* SpecNames: the host lists the versions of a file of r1 below [All Files]  *)
(* and requests the versions it was shown.  The file is named a, a(1), a) or *)
(* (a.  No multi-file transfer is in progress.                               *)

MaxNameCalls == 3

FileNames == {<<CH_a>>, <<CH_a, CH_LPAREN, CH_1, CH_RPAREN>>, <<CH_a, CH_RPAREN>>,
              <<CH_LPAREN, CH_a>>}

\* The matches restic find reports for the file: none, one in snapshot 2, or
\* one in snapshot 2 and a later one in snapshot 1.
NamedFound(name) ==
    LET match(id, sc) == ResticFindEntry(id, BuildLsSubpath(Snap1.paths[1], name), 5, 0,
                                         FindTime(1601, 1, 1, 0, 0, sc, 1))
    IN  {<<>>, <<match(<<CH_2>>, 7)>>, <<match(<<CH_2>>, 7), match(<<CH_1>>, 8)>>}

\* shadow: the version listing the host was shown last: the file, the entries
\* and the short id each entry was built from.
Shown(name, entries, built) == [name |-> name, entries |-> entries, built |-> built]

InitNames ==
    /\ IdleInit
    /\ resticSnaps = [r \in Repos |-> IF r = "r1" THEN {Snap1, Snap2} ELSE {}]
    /\ resticTree = [r \in Repos |-> [s \in AllIds |-> <<>>]]
    /\ shadow = Shown(<<>>, <<>>, <<>>)
    /\ lastFetch = [r \in Repos |-> NeverFetched]

\* GetEntriesForPath on \r1\a\[All Files]\[versions] name.
ListNamed(name, entered, runSnapshots, runFind, found) ==
    /\ last.n < MaxNameCalls
    /\ LET r == "r1"
           pw == RepoStore_EnsurePassword(hasPassword[r], entered)
           env == [runSnapshots |-> runSnapshots, json |-> resticSnaps[r], runLs |-> "ok",
                   tree |-> resticTree[r], runFind |-> runFind, found |-> found]
       IN  IF ~pw.ok THEN Cancelled(r)
           ELSE \E o \in AllFilesEntries([St(r) EXCEPT !.hasPassword = pw.hasPassword], env, r,
                                         SanitizePath(Snap1.paths[1]), VERSION_PREFIX \o name) :
                  /\ g_SnapCache' = o.st.snapCache
                  /\ g_LsCache' = o.st.lsCache
                  /\ hasPassword' = [hasPassword EXCEPT ![r] = o.st.hasPassword]
                  /\ cached_dirs' = [cached_dirs EXCEPT ![r] = o.st.dirs]
                  /\ dir_entries' = [dir_entries EXCEPT ![r] = o.st.ents]
                  /\ loadedSnaps' = o.st.loaded
                  /\ shadow' = IF o.outCount > 0
                               THEN Shown(name, o.entries,
                                          [i \in 1..Len(FirstOfTime(found)) |->
                                              FirstOfTime(found)[i].shortId])
                               ELSE Shown(name, <<>>, <<>>)
                  /\ last' = [op |-> "ListNamed", n |-> last.n + 1, name |-> name,
                              outCount |-> o.outCount]
                  /\ UNCHANGED <<conc, batch, now, g_Initialized, resticSnaps, resticTree,
                                 lastFetch>>

\* FsGetFile on \r1\a\[All Files]\[versions] name\<the i-th entry shown>:
\* the checks, ResolveRemotePath, and restic dump of the resolved snapshot.
GetVersionFile(i, early, entered, runSnapshots, runDump) ==
    /\ last.n < MaxNameCalls
    /\ i \in 1..Len(shadow.entries)
    /\ LET r == "r1"
           rest == VERSION_PREFIX \o shadow.name \o <<CH_BACKSLASH>> \o shadow.entries[i].name
           env == [runSnapshots |-> runSnapshots, json |-> resticSnaps[r]]
           asked(result, ok, shortId, resticPath) ==
               [op |-> "GetVersionFile", n |-> last.n + 1, name |-> shadow.name,
                built |-> shadow.built[i], result |-> result, ok |-> ok,
                shortId |-> shortId, resticPath |-> resticPath]
       IN  IF early = "resume" \/ early = "exists"
           THEN /\ last' = asked(IF early = "resume" THEN "FS_FILE_NOTSUPPORTED"
                                 ELSE "FS_FILE_EXISTS", FALSE, <<>>, <<>>)
                /\ UNCHANGED <<g_SnapCache, hasPassword, cached_dirs, dir_entries>>
           ELSE \E o \in ResolveVersionPath(St(r), env, r, SanitizePath(Snap1.paths[1]), rest,
                                            entered) :
                  /\ g_SnapCache' = o.st.snapCache
                  /\ hasPassword' = [hasPassword EXCEPT ![r] = o.st.hasPassword]
                  /\ cached_dirs' = [cached_dirs EXCEPT ![r] = o.st.dirs]
                  /\ dir_entries' = [dir_entries EXCEPT ![r] = o.st.ents]
                  /\ last' = asked(IF ~o.ok THEN "FS_FILE_NOTFOUND"
                                   ELSE IF early = "abort" THEN "FS_FILE_USERABORT"
                                   ELSE DumpResult(runDump),
                                   o.ok, o.shortId, o.resticPath)
    /\ UNCHANGED <<conc, batch, now, g_LsCache, g_Initialized, loadedSnaps, resticSnaps,
                   resticTree, shadow, lastFetch>>

NextNames ==
    \/ Tick
    \/ \E name \in FileNames, entered \in BOOLEAN, runSnapshots \in RunOutcomes,
          runFind \in {"ok", "failed"} :
          \E found \in NamedFound(name) :
             /\ Asked(entered, runSnapshots)
             /\ runFind = "failed" => found = <<>>
             /\ ListNamed(name, entered, runSnapshots, runFind, found)
    \/ \E i \in 1..2, early \in EarlyOutcomes, entered \in BOOLEAN, runSnapshots \in RunOutcomes,
          runDump \in DumpOutcomes :
          /\ Asked(entered, runSnapshots)
          /\ early # "none" => runDump = "ok"
          /\ early \in {"resume", "exists"} => entered /\ runSnapshots = "ok"
          /\ GetVersionFile(i, early, entered, runSnapshots, runDump)

SpecNames == InitNames /\ [][NextNames]_vars

\* The request got as far as resolving its path.
Resolving == last.op = "GetVersionFile" /\ last.result \notin {"FS_FILE_NOTSUPPORTED", "FS_FILE_EXISTS"}

\* Whether a name holds a parenthesis.
Parenthesised(name) == \E k \in 1..Len(name) : name[k] \in {CH_LPAREN, CH_RPAREN}

\* C31: a file request addressed to the name of an entry of a version listing
\* resolves to the short id the entry was built from, whatever the name of the
\* file: a request that resolves, resolves to that short id, and a request
\* whose password and snapshot list are at hand resolves.
C31_VersionResolvesToItsSnapshot ==
    Resolving => (last.ok => last.shortId = last.built)

\* That holds for a file whose name holds no parenthesis.
C31_PlainNameResolves ==
    (Resolving /\ ~Parenthesised(last.name)) => (last.ok => last.shortId = last.built)

\* The version of a(1) in snapshot 2 was requested and snapshot 1 was dumped.
C31_WitnessWrongSnapshot ==
    /\ Resolving
    /\ last.ok
    /\ last.result = "FS_FILE_OK"
    /\ last.name = <<CH_a, CH_LPAREN, CH_1, CH_RPAREN>>
    /\ last.built = <<CH_2>>
    /\ last.shortId = <<CH_1>>

\* The version of (a in snapshot 2 was requested with the password held and
\* the snapshot list cached, and the request did not resolve.
C31_WitnessUnresolved ==
    /\ Resolving
    /\ ~last.ok
    /\ last.name = <<CH_LPAREN, CH_a>>
    /\ hasPassword["r1"]
    /\ FindSnapSlot(g_SnapCache, "r1") # 0

-----------------------------------------------------------------------------
(* SpecMerge: the displayed names of a merged listing                        *)

\* No two entries of the last merged listing carry the same name.
NamesDistinct ==
    \A m1, m2 \in 1..Len(last.entries) :
        m1 # m2 => last.entries[m1].name # last.entries[m2].name

\* A matching snapshot returned an entry whose own name begins with the
\* version prefix.
GotMarkedName ==
    \E g \in 1..Len(last.got) : \E c \in 1..Len(last.got[g].entries) :
        HasVersionPrefix(last.got[g].entries[c].name)

\* C32: listMerged never returns two entries with the same displayed name,
\* a snapshot that holds a directory named "[versions] ..." included.
C32_MergedNamesDistinct ==
    last.op = "ListMerged" => NamesDistinct

\* That holds when no snapshot holds an entry named "[versions] ...".
C32_UnmarkedNamesDistinct ==
    (last.op = "ListMerged" /\ ~GotMarkedName) => NamesDistinct

\* Two snapshots hold the directory "[versions] a" and the merged listing
\* shows it twice.
C32_WitnessShownTwice ==
    /\ last.op = "ListMerged"
    /\ Len(last.got) = 2
    /\ Cardinality({m \in 1..Len(last.entries) : last.entries[m].name = MarkedName}) = 2

-----------------------------------------------------------------------------
(* SpecIngest: what BulkCacheSubdirectories hands back                       *)

\* C33: ingest returns exactly the entries of the listing that lie directly
\* in the requested path, and nothing when there is none: for an empty
\* directory and for a path the snapshot does not hold.
C33_IngestReturnsDirectChildren ==
    last.op = "Ingest" =>
        LET children == ChildrenIn(resticTree[last.repo][last.shortId], last.path)
        IN  /\ SeqToSet(last.outDirectChildren) = children
            /\ Len(last.outDirectChildren) = Cardinality(children)
            /\ last.outDirectCount = Cardinality(children)

\* C33 witness: the listing holds /a with two children and /b; the ingest
\* asked for /a and got both.
C33_Witness ==
    /\ last.op = "Ingest"
    /\ last.path = PathOf(<< <<CH_a>> >>)
    /\ Len(resticTree[last.repo][last.shortId]) = 4
    /\ last.outDirectCount = 2

\* The ingest asked for an empty directory of a listing of three entries and
\* got nothing.
C33_WitnessEmptyDirectory ==
    /\ last.op = "Ingest"
    /\ \E i \in 1..Len(resticTree[last.repo][last.shortId]) :
          LET e == resticTree[last.repo][last.shortId][i]
          IN  e.path = last.path /\ e.type = "dir"
    /\ Len(resticTree[last.repo][last.shortId]) = 3
    /\ last.outDirectCount = 0

\* The ingest asked for a path the snapshot does not hold and got nothing.
C33_WitnessNoSuchPath ==
    /\ last.op = "Ingest"
    /\ last.path # <<CH_SLASH>>
    /\ \A i \in 1..Len(resticTree[last.repo][last.shortId]) :
          resticTree[last.repo][last.shortId][i].path # last.path
    /\ Len(resticTree[last.repo][last.shortId]) = 3
    /\ last.outDirectCount = 0

-----------------------------------------------------------------------------
(* SpecCap: the in-memory directory cache at its capacity.  r1 holds 34      *)
(* snapshots, each with a folder /a that holds one file; the host lists the  *)
(* folder of one snapshot after the other, comes back to the first ones and  *)
(* to the last, and the backend may fail.                                    *)

CapSnaps == 34
MaxInserts == 35

\* The recursive listing of every snapshot: the directory /a and the file /a/a.
CapListing ==
    ParseLsOutputAll([n \in Nodes |->
        IF n = << <<CH_a>> >> THEN "dir"
        ELSE IF n = << <<CH_a>>, <<CH_a>> >> THEN "file" ELSE "absent"])

\* The snapshots the host comes back to, next to the one it has not listed yet.
Relisted == {1, CapSnaps - 1}

InitCap ==
    /\ IdleInit
    /\ resticSnaps = [r \in Repos |-> IF r = "r1" THEN ManySnaps(CapSnaps) ELSE {}]
    /\ resticTree = [r \in Repos |-> [s \in {ManySnap(k).shortId : k \in 1..CapSnaps} |-> CapListing]]
    /\ shadow = <<>>
    /\ lastFetch = [r \in Repos |-> NeverFetched]

\* GetSnapshotContents on the folder of the k-th snapshot of r.  shadow is
\* the history of the keys listed while not in memory and returned with at
\* least one entry, in the order of the calls.
ListTop(r, k, runLs) ==
    /\ Len(shadow) < MaxInserts
    /\ ManySnap(k) \in resticSnaps[r]
    /\ LET sn == ManySnap(k)
           key == [shortId |-> sn.shortId, path |-> BuildLsSubpath(sn.paths[1], <<>>)]
           inMemory == \E i \in 1..Len(g_LsCache) :
                          g_LsCache[i].shortId = key.shortId /\ g_LsCache[i].path = key.path
       IN  \E o \in GetSnapshotContents(St(r), Env(r, "ok", runLs), r,
                                        SanitizePath(sn.paths[1]), DisplayName(sn), <<>>) :
              /\ g_SnapCache' = o.st.snapCache
              /\ g_LsCache' = o.st.lsCache
              /\ hasPassword' = [hasPassword EXCEPT ![r] = o.st.hasPassword]
              /\ cached_dirs' = [cached_dirs EXCEPT ![r] = o.st.dirs]
              /\ dir_entries' = [dir_entries EXCEPT ![r] = o.st.ents]
              /\ loadedSnaps' = o.st.loaded
              /\ shadow' = IF ~inMemory /\ o.outCount > 0 THEN Append(shadow, key) ELSE shadow
              /\ last' = [op |-> "ListTop", n |-> 0, key |-> key, inMemory |-> inMemory,
                          outCount |-> o.outCount, pre |-> g_LsCache]
    /\ UNCHANGED <<conc, batch, now, g_Initialized, resticSnaps, resticTree, lastFetch>>

NextCap ==
    \E k \in 1..CapSnaps, runLs \in {"ok", "failed"} :
        /\ k \in Relisted \/ k = Cardinality(SeqToSet(shadow)) + 1
        /\ ListTop("r1", k, runLs)

SpecCap == InitCap /\ [][NextCap]_vars

\* The (snapshot, path) keys of the slots of g_LsCache, in slot order.
LsKeys(lsCache) ==
    [i \in 1..Len(lsCache) |-> [shortId |-> lsCache[i].shortId, path |-> lsCache[i].path]]

\* The last n elements of a sequence, all of them when it is shorter.
LastOf(s, n) == IF Len(s) <= n THEN s ELSE SubSeq(s, Len(s) - n + 1, Len(s))

\* C34: after any sequence of directory listings the in-memory cache holds at
\* most 32 entries, no two of them with the same (snapshot, path) key, and
\* they are the 32 latest insertions in their order: an insertion at capacity
\* has evicted the earliest inserted entry and nothing else.
C34_BoundedInsertionOrder ==
    /\ Len(g_LsCache) <= LS_CACHE_MAX
    /\ \A i, j \in 1..Len(g_LsCache) :
          i # j => LsKeys(g_LsCache)[i] # LsKeys(g_LsCache)[j]
    /\ LsKeys(g_LsCache) = LastOf(shadow, LS_CACHE_MAX)

\* C34 witness: a listing made with 32 entries in memory put its key in the
\* last slot, dropped the first slot and moved the others one slot down.
C34_Witness ==
    /\ last.op = "ListTop"
    /\ Len(last.pre) = LS_CACHE_MAX
    /\ ~last.inMemory
    /\ last.outCount > 0
    /\ Len(g_LsCache) = LS_CACHE_MAX
    /\ g_LsCache[1] = last.pre[2]
    /\ g_LsCache[LS_CACHE_MAX].shortId = last.key.shortId

\* An evicted key was listed again and inserted again, from the persistent
\* cache.
C34_WitnessInsertedAgain ==
    /\ last.op = "ListTop"
    /\ Len(last.pre) = LS_CACHE_MAX
    /\ last.key \in SeqToSet(SubSeq(shadow, 1, Len(shadow) - 1))
    /\ shadow[Len(shadow)] = last.key

-----------------------------------------------------------------------------
(* SpecScope: the include scope of the bulk restore.  r1 holds one snapshot  *)
(* of /a with the files /a/b, /a/a/a and /a/a/b/a.  The host starts          *)
(* multi-file transfers in the snapshot folder or in its folder a and        *)
(* requests files below the folder the transfer started in; outside a        *)
(* transfer it requests any file; it can disconnect the plugin at any        *)
(* moment.                                                                   *)

\* The folders a transfer starts in, as the host names them below the
\* snapshot folder, and the files, likewise.
ScopeStarts == {<<>>, <<CH_a, CH_BACKSLASH>>}
ScopeRests ==
    {<<CH_b>>, <<CH_a, CH_BACKSLASH, CH_a>>,
     <<CH_a, CH_BACKSLASH, CH_b, CH_BACKSLASH, CH_a>>}
ScopeFiles == {BuildLsSubpath(Snap1.paths[1], rest) : rest \in ScopeRests}

ScopeEnv(runSnapshots, runRestore) ==
    [runSnapshots |-> runSnapshots, json |-> resticSnaps["r1"], runRestore |-> runRestore,
     runDump |-> "ok", held |-> ScopeFiles]

\* FsStatusInfo(\r1\a\<snapshot>\<start>, FS_STATUS_START, FS_STATUS_OP_GET_MULTI).
StartIn(start, entered, runSnapshots, rnd) ==
    /\ last.n < MaxBatchCalls
    /\ ~shadow.open
    /\ \E o \in FsStatusInfo_Start(St("r1"), ScopeEnv(runSnapshots, "norun"),
                                   g_BatchRestore, tempDirs, "GET_MULTI", "r1",
                                   SanitizePath(Snap1.paths[1]), DisplayName(Snap1),
                                   start, entered, rnd) :
          /\ g_BatchRestore' = o.b
          /\ tempDirs' = o.fs
          /\ g_SnapCache' = o.st.snapCache
          /\ hasPassword' = [hasPassword EXCEPT !["r1"] = o.st.hasPassword]
          /\ cached_dirs' = [cached_dirs EXCEPT !["r1"] = o.st.dirs]
          /\ dir_entries' = [dir_entries EXCEPT !["r1"] = o.st.ents]
          /\ shadow' = IF o.opened THEN Transfer(TRUE, o.b.tempDir, FALSE)
                       ELSE Transfer(TRUE, <<>>, shadow.sessionRestored)
          /\ LET seen == Observed("Start", NoFile(o.opened, o.runs), FALSE, "none")
             IN  last' = [f \in DOMAIN seen \cup {"start", "include"} |->
                            IF f = "start" THEN start
                            ELSE IF f = "include" THEN <<>> ELSE seen[f]]
    /\ UNCHANGED <<conc, now, g_LsCache, g_Initialized, loadedSnaps, resticSnaps, resticTree,
                   lastFetch>>

\* FsGetFile on a file of the snapshot folder.  last is what GetFile leaves,
\* with the include path of lines 1585-1605 when the call ran the restore.
ScopedGet(rest, entered, runSnapshots, runRestore) ==
    /\ last.n < MaxBatchCalls
    /\ \E o \in FsGetFile(St("r1"), ScopeEnv(runSnapshots, runRestore),
                          g_BatchRestore, tempDirs, "r1", SanitizePath(Snap1.paths[1]),
                          DisplayName(Snap1), rest, "none", entered, TRUE) :
          /\ g_BatchRestore' = o.b
          /\ tempDirs' = o.fs
          /\ g_SnapCache' = o.st.snapCache
          /\ hasPassword' = [hasPassword EXCEPT !["r1"] = o.st.hasPassword]
          /\ cached_dirs' = [cached_dirs EXCEPT !["r1"] = o.st.dirs]
          /\ dir_entries' = [dir_entries EXCEPT !["r1"] = o.st.ents]
          /\ LET tried == "restore" \in SeqToSet(o.runs)
             IN  shadow' = [shadow EXCEPT
                              !.attempts = IF tried THEN @ + 1 ELSE @,
                              !.restored = @ \/ (tried /\ o.b.active),
                              !.sessionRestored = @ \/ (tried /\ o.b.active),
                              !.failed = @ \/ (tried /\ ~o.b.active)]
          /\ LET seen == Observed("GetFile", o, TRUE, "ok")
                 tried == "restore" \in SeqToSet(o.runs)
             IN  last' = [f \in DOMAIN seen \cup {"start", "include"} |->
                            IF f = "start" THEN <<>>
                            ELSE IF f = "include"
                            THEN (IF tried THEN IncludePath(g_BatchRestore.resticPrefix, o.path)
                                  ELSE <<>>)
                            ELSE seen[f]]
    /\ UNCHANGED <<conc, now, g_LsCache, g_Initialized, loadedSnaps, resticSnaps, resticTree,
                   lastFetch>>

\* Whether the host path `rest` names something below the folder `start`.
Below(start, rest) ==
    start = <<>> \/ (Len(rest) > Len(start) /\ SubSeq(rest, 1, Len(start)) = start)

NextScope ==
    \/ \E start \in ScopeStarts, entered \in BOOLEAN, runSnapshots \in {"ok", "failed"},
          rnd \in RandomValues :
          /\ Asked(entered, runSnapshots)
          /\ StartIn(start, entered, runSnapshots, rnd)
    \/ TransferEnd
    \/ \E rest \in ScopeRests, entered \in BOOLEAN, runSnapshots \in {"ok", "failed"},
          runRestore \in {"ok", "failed"} :
          /\ Asked(entered, runSnapshots)
          /\ ~(g_BatchRestore.pending /\ ~g_BatchRestore.active) => runRestore = "ok"
          /\ (shadow.open /\ last.op = "Start") => Below(last.start, rest)
          /\ ScopedGet(rest, entered, runSnapshots, runRestore)
    \/ Disconnect

SpecScope == InitBatch /\ [][NextScope]_vars

\* The call was a file request that found the session pending and ran the
\* bulk restore.
FirstOfPending ==
    /\ last.op = "GetFile"
    /\ last.pre.pending /\ ~last.pre.active
    /\ "restore" \in SeqToSet(last.runs)

\* Directory dir extended by the one path component c.
Extended(dir, c) == IF dir = <<CH_SLASH>> THEN dir \o c ELSE dir \o <<CH_SLASH>> \o c

\* Whether scope is directory dir extended by the one component of file that
\* follows dir: the file itself when it lies directly in dir.
IsScopeOf(scope, dir, file) ==
    LET parts == {SubSeq(file, j, k) : j \in 1..Len(file), k \in 1..Len(file)}
    IN  \E c \in {x \in parts : strchr(x, CH_SLASH) = 0 /\ x # <<>>} :
           /\ scope = Extended(dir, c)
           /\ \/ file = scope
              \/ /\ Len(file) > Len(scope)
                 /\ SubSeq(file, 1, Len(scope) + 1) = scope \o <<CH_SLASH>>

\* C35: on the first file request of a pending session the include path of
\* the bulk restore is the starting directory of the session extended by the
\* one component of the requested file that follows it, which is the file's
\* own path when the file lies directly in the starting directory.
C35_IncludeScope ==
    FirstOfPending => IsScopeOf(last.include, last.pre.resticPrefix, last.path)

\* The same for a request made inside the transfer that opened the session.
C35_IncludeScopeInTransfer ==
    (FirstOfPending /\ last.session # <<>> /\ last.session = last.pre.tempDir) =>
        IsScopeOf(last.include, last.pre.resticPrefix, last.path)

\* A transfer started in the snapshot folder; its first request, for
\* /a/a/b/a, restored /a/a: the files /a/a/a and /a/a/b/a and not /a/b.
C35_WitnessSubfolder ==
    /\ FirstOfPending
    /\ last.session = last.pre.tempDir
    /\ last.pre.resticPrefix = PathOf(<< <<CH_a>> >>)
    /\ last.path = PathOf(<< <<CH_a>>, <<CH_a>>, <<CH_b>>, <<CH_a>> >>)
    /\ last.include = PathOf(<< <<CH_a>>, <<CH_a>> >>)
    /\ g_BatchRestore.active
    /\ tempDirs[g_BatchRestore.tempDir].files =
          {PathOf(<< <<CH_a>>, <<CH_a>>, <<CH_a>> >>),
           PathOf(<< <<CH_a>>, <<CH_a>>, <<CH_b>>, <<CH_a>> >>)}

\* A transfer started in folder a; its first request was for the file a
\* directly in it, and the include path was the path of the file.
C35_WitnessDirectFile ==
    /\ FirstOfPending
    /\ last.session = last.pre.tempDir
    /\ last.pre.resticPrefix = PathOf(<< <<CH_a>>, <<CH_a>> >>)
    /\ last.path = PathOf(<< <<CH_a>>, <<CH_a>>, <<CH_a>> >>)
    /\ last.include = last.path

\* A session left pending by a disconnect: the next request, for /a/b, ran
\* the restore of the session started in /a/a with the include path /a/b.
C35_WitnessStaleSession ==
    /\ FirstOfPending
    /\ last.session = <<>>
    /\ last.pre.resticPrefix = PathOf(<< <<CH_a>>, <<CH_a>> >>)
    /\ last.path = PathOf(<< <<CH_a>>, <<CH_b>> >>)
    /\ last.include = last.path

-----------------------------------------------------------------------------
(* SpecDown: the backend cannot be started.  The host lists snapshots and    *)
(* directories as in Spec while restic runs, and makes the same calls when   *)
(* restic.exe cannot be started: RunRestic returns NULL for every command.   *)

\* What a call made without a backend found: both tiers of the directory
\* cache, the loaded marks and the passwords held.
Found ==
    [lsCache |-> g_LsCache, dirs |-> cached_dirs, ents |-> dir_entries,
     loaded |-> loadedSnaps, hasPassword |-> hasPassword]

\* FetchSnapshots of r with the password held and no backend.
DownSnapshots(r) ==
    /\ last.n < MaxCalls
    /\ hasPassword[r]
    /\ \E f \in FetchSnapshots(now, g_SnapCache, g_Initialized, cached_dirs[r],
                               dir_entries[r], hasPassword[r], r, "norun", resticSnaps[r]) :
          /\ g_SnapCache' = f.cache
          /\ hasPassword' = [hasPassword EXCEPT ![r] = f.hasPassword]
          /\ cached_dirs' = [cached_dirs EXCEPT ![r] = f.dirs]
          /\ dir_entries' = [dir_entries EXCEPT ![r] = f.ents]
          /\ lastFetch' = [lastFetch EXCEPT ![r] =
                              ObserveFetch(@, now, "norun", resticSnaps[r], f.snapshots)]
          /\ last' = [op |-> "DownSnapshots", n |-> last.n + 1, repo |-> r, found |-> Found,
                      runs |-> f.runs, count |-> f.numSnaps, returned |-> f.snapshots]
    /\ UNCHANGED <<conc, batch, now, g_LsCache, g_Initialized, loadedSnaps,
                   resticSnaps, resticTree, shadow>>

\* GetSnapshotContents of request q with the password held and no backend.
DownDirectory(q) ==
    /\ last.n < MaxCalls
    /\ hasPassword[q.repo]
    /\ \E o \in GetSnapshotContents(St(q.repo), Env(q.repo, "norun", "norun"), q.repo,
                                    SanitizePath(q.sn.paths[1]), q.displayName, q.subpath) :
          /\ g_SnapCache' = o.st.snapCache
          /\ g_LsCache' = o.st.lsCache
          /\ hasPassword' = [hasPassword EXCEPT ![q.repo] = o.st.hasPassword]
          /\ cached_dirs' = [cached_dirs EXCEPT ![q.repo] = o.st.dirs]
          /\ dir_entries' = [dir_entries EXCEPT ![q.repo] = o.st.ents]
          /\ loadedSnaps' = o.st.loaded
          /\ lastFetch' = [lastFetch EXCEPT ![q.repo] =
                              IF o.fetched.called
                              THEN ObserveFetch(@, now, "norun", resticSnaps[q.repo],
                                                o.fetched.snapshots)
                              ELSE @]
          /\ last' = [op |-> "DownDirectory", n |-> last.n + 1, repo |-> q.repo, found |-> Found,
                      runs |-> o.runs, count |-> o.outCount, returned |-> o.entries]
    /\ UNCHANGED <<conc, batch, now, g_Initialized, resticSnaps, resticTree, shadow>>

NextDown ==
    \/ Tick
    \/ \E r \in Repos : ListSnapshots(r, TRUE, "ok")
    \/ \E q \in Requests : ListDirectory(q.repo, q.sn, q.displayName, q.subpath, TRUE, "ok", "ok")
    \/ \E r \in Repos : DownSnapshots(r)
    \/ \E q \in Requests : DownDirectory(q)

SpecDown == Init /\ [][NextDown]_vars

\* The call just made tried to start the backend, which cannot be started.
TriedBackend == last.op \in {"DownSnapshots", "DownDirectory"} /\ last.runs # <<>>

\* C36: when the backend cannot be started, listSnapshots and the directory
\* listing return nothing after one attempt to run it, and both tiers of the
\* directory cache, the loaded marks and the passwords are as the call found
\* them.
C36_NoBackendNoChange ==
    TriedBackend =>
        /\ Len(last.runs) = 1
        /\ last.count = 0 /\ last.returned = <<>>
        /\ Found = last.found

\* C36 witness: a directory listing that found the snapshot list cached, a
\* listing in memory and rows in the database, asked for a directory of a
\* snapshot not yet loaded, and could not run restic ls.
C36_Witness ==
    /\ last.op = "DownDirectory"
    /\ last.runs = <<"ls">>
    /\ last.found.lsCache # <<>>
    /\ \E r \in Repos : last.found.dirs[r] # {}
    /\ last.found.loaded # {}

\* A listSnapshots call whose cached list had expired could not run restic
\* snapshots.
C36_WitnessSnapshots ==
    /\ last.op = "DownSnapshots"
    /\ last.runs = <<"snapshots">>
    /\ last.found.lsCache # <<>>
    /\ now >= SNAPSHOT_CACHE_TTL_MS

-----------------------------------------------------------------------------
(* SpecRefresh: the force-refresh marker.  The host lists snapshots and      *)
(* directories of both repositories while restic runs, and enters or opens   *)
(* [Refresh snapshot list] of either repository.                             *)

\* GetEntriesForPath on \r\path\[Refresh snapshot list] (lines 1198-1208):
\* the password, then InvalidateSnapshotCache; the listing is one hint entry.
EnterRefreshMarker(r, entered) ==
    /\ last.n < MaxCalls
    /\ LET pw == RepoStore_EnsurePassword(hasPassword[r], entered)
       IN  IF ~pw.ok THEN Cancelled(r)
           ELSE /\ g_SnapCache' = InvalidateSnapshotCache(g_SnapCache, r)
                /\ hasPassword' = [hasPassword EXCEPT ![r] = pw.hasPassword]
                /\ lastFetch' = [lastFetch EXCEPT ![r] = Dropped(@)]
                /\ last' = [op |-> "Refresh", n |-> last.n + 1, repo |-> r, count |-> 1]
                /\ UNCHANGED <<conc, batch, now, g_LsCache, g_Initialized, cached_dirs,
                               dir_entries, loadedSnaps, resticSnaps, resticTree, shadow>>

NextRefresh ==
    \/ Tick
    \/ \E r \in Repos : ListSnapshots(r, TRUE, "ok")
    \/ \E q \in Requests : ListDirectory(q.repo, q.sn, q.displayName, q.subpath, TRUE, "ok", "ok")
    \/ \E r \in Repos : RefreshSnapshotList(r)
    \/ \E r \in Repos : EnterRefreshMarker(r, TRUE)

SpecRefresh == Init /\ [][NextRefresh]_vars

\* The entries of the snapshot cache that name repository r.
SnapEntries(cache, r) == {cache[i] : i \in {j \in 1..Len(cache) : cache[j].repoName = r}}

\* The step is a call of the marker of a repository R: it leaves no entry of
\* R in the snapshot cache, and the entries of every other repository, with
\* their lists and fetch times, and both tiers of the directory cache as they
\* were.
MarkerStep ==
    (last'.op = "Refresh" /\ last'.n # last.n) =>
        /\ SnapEntries(g_SnapCache', last'.repo) = {}
        /\ \A r \in Repos \ {last'.repo} :
              SnapEntries(g_SnapCache', r) = SnapEntries(g_SnapCache, r)
        /\ UNCHANGED <<g_LsCache, cached_dirs, dir_entries>>

\* The call just made fetched the snapshot list of a repository whose marker
\* was called after its last fetch.
FetchAfterMarker ==
    /\ last.op \in {"FetchSnapshots", "GetSnapshotContents"}
    /\ last.fetched.called
    /\ last.prev.called /\ ~last.prev.valid

\* C37: the force-refresh marker of repository R removes R's entry of the
\* snapshot cache and leaves the entries of the other repositories and both
\* tiers of the directory cache unchanged; the next fetch of R's snapshot
\* list runs the backend, inside the TTL window too.
C37_MarkerForcesFetch ==
    /\ [][MarkerStep]_vars
    /\ [](FetchAfterMarker => last.fetched.runs # <<>>)

\* C37 witness: r1's list was fetched, its marker called and its list fetched
\* again by the backend, all inside the TTL window.
C37_Witness ==
    /\ last.op = "FetchSnapshots"
    /\ last.repo = "r1"
    /\ FetchAfterMarker
    /\ last.at - last.prev.at < SNAPSHOT_CACHE_TTL_MS
    /\ last.fetched.runs = <<"snapshots">>
    /\ SnapEntries(g_SnapCache, "r1") # {}

\* The marker of r1 was called with r1 in the first slot and r2 in the
\* second, and a listing in memory: r2's entry is now in the first slot.
C37_WitnessOtherKept ==
    /\ last.op = "Refresh"
    /\ last.repo = "r1"
    /\ Len(g_SnapCache) = 1
    /\ g_SnapCache[1].repoName = "r2"
    /\ g_LsCache # <<>>
    /\ lastFetch["r1"].called

-----------------------------------------------------------------------------
(* SpecRace: FetchSnapshots on two host threads.  The foreground thread and  *)
(* a background transfer both reach FetchSnapshots (through GetEntriesForPath *)
(* and through ResolveRemotePath); the function takes no lock, so their      *)
(* steps interleave at every access of g_SnapCache and g_SnapCacheCount.     *)
(* The slots carry the address of their snapshots array (ptr).  shadow is    *)
(* the heap and the memory of the array: mem holds the slots as last         *)
(* written, beyond g_SnapCacheCount too; freed is the set of arrays          *)
(* released.  The run ends at the first release of a released array, read of *)
(* a released array or count below zero: what the process does then is not   *)
(* defined.                                                                  *)

MaxRaceCalls == 3

InitRace ==
    /\ IdleInit
    /\ resticSnaps = [r \in Repos |-> {Snap1}]
    /\ resticTree = [r \in Repos |-> <<>>]
    /\ shadow = [mem |-> <<>>, freed |-> {}, nextPtr |-> 1, calls |-> 0,
                 doubleFree |-> FALSE, readAfterRelease |-> FALSE, underflow |-> FALSE]
    /\ lastFetch = [r \in Repos |-> NeverFetched]

Undefined == shadow.doubleFree \/ shadow.readAfterRelease \/ shadow.underflow

\* g_SnapCache[i - 1] as the memory holds it, whatever g_SnapCacheCount is.
SlotAt(i) == IF i <= Len(g_SnapCache) THEN g_SnapCache[i] ELSE shadow.mem[i]

\* The memory of the array once its first slots are `cache`.
MemAfter(cache) ==
    LET n == IF Len(cache) > Len(shadow.mem) THEN Len(cache) ELSE Len(shadow.mem)
    IN  [j \in 1..n |-> IF j <= Len(cache) THEN cache[j] ELSE shadow.mem[j]]

RaceUnchanged ==
    UNCHANGED <<localFile, resticProc, g_Dbs, batch, now, g_LsCache, g_Initialized,
                cached_dirs, dir_entries, loadedSnaps, resticSnaps, resticTree, last, lastFetch>>

\* Lines 291-300: the call begins and reads the tick count.
RaceEnter(t, r) ==
    /\ threads[t].pc = "idle"
    /\ shadow.calls < MaxRaceCalls
    /\ threads' = [threads EXCEPT ![t] = [pc |-> "scan", repo |-> r, now |-> now, i |-> 0]]
    /\ shadow' = [shadow EXCEPT !.calls = @ + 1]
    /\ UNCHANGED <<g_SnapCache, hasPassword>>
    /\ RaceUnchanged

\* Lines 301-303: the loop finds the slot of the repository, and the test of
\* its age, an unsigned difference: a fetch time after `now` counts as old.
RaceScan(t) ==
    /\ threads[t].pc = "scan"
    /\ LET th == threads[t]
           i == FindSnapSlot(g_SnapCache, th.repo)
           fresh == /\ th.now >= g_SnapCache[i].fetchTimeMs
                    /\ th.now - g_SnapCache[i].fetchTimeMs < SNAPSHOT_CACHE_TTL_MS
       IN  threads' = [threads EXCEPT ![t] =
                          [th EXCEPT !.i = i,
                                     !.pc = IF i = 0 THEN "run"
                                            ELSE IF fresh THEN "copy" ELSE "free"]]
    /\ UNCHANGED <<g_SnapCache, hasPassword, shadow>>
    /\ RaceUnchanged

\* Lines 304-306: CopySnapshots reads the array of slot i and the call returns.
RaceCopy(t) ==
    /\ threads[t].pc = "copy"
    /\ shadow' = [shadow EXCEPT !.readAfterRelease = SlotAt(threads[t].i).ptr \in shadow.freed]
    /\ threads' = [threads EXCEPT ![t] = IdleThread]
    /\ UNCHANGED <<g_SnapCache, hasPassword>>
    /\ RaceUnchanged

\* Lines 308-314: the array of slot i is released, the count goes down and
\* the last slot is moved into slot i when slot i is not the last.
RaceFree(t) ==
    /\ threads[t].pc = "free"
    /\ LET i == threads[t].i
           ptr == SlotAt(i).ptr
           cache == RemoveSlot(g_SnapCache, i)
       IN  IF ptr \in shadow.freed
           THEN /\ shadow' = [shadow EXCEPT !.doubleFree = TRUE]
                /\ UNCHANGED <<g_SnapCache, threads>>
           ELSE IF Len(g_SnapCache) = 0
           THEN /\ shadow' = [shadow EXCEPT !.freed = @ \cup {ptr}, !.underflow = TRUE]
                /\ UNCHANGED <<g_SnapCache, threads>>
           ELSE /\ g_SnapCache' = cache
                /\ shadow' = [shadow EXCEPT !.freed = @ \cup {ptr}, !.mem = MemAfter(cache)]
                /\ threads' = [threads EXCEPT ![t].pc = "run"]
    /\ UNCHANGED hasPassword
    /\ RaceUnchanged

\* Lines 317-343: restic snapshots --json.  When it cannot be run the call
\* returns; after a nonzero exit code the password is dropped and
\* InvalidateSnapshotCache releases and removes the slot of the repository.
RaceRun(t, run) ==
    /\ threads[t].pc = "run"
    /\ LET r == threads[t].repo
           j == FindSnapSlot(g_SnapCache, r)
           cache == InvalidateSnapshotCache(g_SnapCache, r)
       IN  IF run = "ok"
           THEN /\ threads' = [threads EXCEPT ![t].pc = "store"]
                /\ UNCHANGED <<g_SnapCache, hasPassword, shadow>>
           ELSE IF run = "norun" \/ j = 0
           THEN /\ threads' = [threads EXCEPT ![t] = IdleThread]
                /\ hasPassword' = [hasPassword EXCEPT ![r] = IF run = "failed" THEN FALSE ELSE @]
                /\ UNCHANGED <<g_SnapCache, shadow>>
           ELSE /\ threads' = [threads EXCEPT ![t] = IdleThread]
                /\ hasPassword' = [hasPassword EXCEPT ![r] = FALSE]
                /\ g_SnapCache' = cache
                /\ shadow' = [shadow EXCEPT
                                !.doubleFree = g_SnapCache[j].ptr \in shadow.freed,
                                !.freed = @ \cup {g_SnapCache[j].ptr},
                                !.mem = MemAfter(cache)]
    /\ RaceUnchanged

\* Lines 345-364: the list is stored in the slot after the last when the
\* count is below MAX_REPOS, and the persistent cache is purged (its tables
\* are empty here).
RaceStore(t) ==
    /\ threads[t].pc = "store"
    /\ LET th == threads[t]
           snaps == CHOOSE l \in ParseSnapshots(resticSnaps[th.repo]) : TRUE
           cache == Append(g_SnapCache,
                           [repoName |-> th.repo, snapshots |-> snaps, count |-> Len(snaps),
                            fetchTimeMs |-> th.now, ptr |-> shadow.nextPtr])
       IN  IF Len(g_SnapCache) < MAX_REPOS
           THEN /\ g_SnapCache' = cache
                /\ shadow' = [shadow EXCEPT !.nextPtr = @ + 1, !.mem = MemAfter(cache)]
           ELSE UNCHANGED <<g_SnapCache, shadow>>
    /\ threads' = [threads EXCEPT ![t] = IdleThread]
    /\ UNCHANGED hasPassword
    /\ RaceUnchanged

NextRace ==
    \/ ~Undefined /\ Tick
    \/ \E t \in ThreadIds, r \in Repos : ~Undefined /\ RaceEnter(t, r)
    \/ \E t \in ThreadIds : ~Undefined /\ RaceScan(t)
    \/ \E t \in ThreadIds : ~Undefined /\ RaceCopy(t)
    \/ \E t \in ThreadIds : ~Undefined /\ RaceFree(t)
    \/ \E t \in ThreadIds, run \in RunOutcomes : ~Undefined /\ RaceRun(t, run)
    \/ \E t \in ThreadIds : ~Undefined /\ RaceStore(t)

SpecRace == InitRace /\ [][NextRace]_vars

\* C38: with listSnapshots called from several host threads, once the calls
\* have returned the snapshot cache holds at most one entry of a repository;
\* it never holds more than MAX_REPOS entries, and no snapshots array is
\* released twice or read after its release.
C38_ConcurrentFetchSafe ==
    /\ AllIdle => \A r \in Repos : Cardinality({i \in 1..Len(g_SnapCache) :
                                                   g_SnapCache[i].repoName = r}) <= 1
    /\ Len(g_SnapCache) <= MAX_REPOS
    /\ ~shadow.doubleFree
    /\ ~shadow.readAfterRelease

\* Both calls have returned and the cache holds two entries of r1.
C38_WitnessTwoEntries ==
    /\ AllIdle
    /\ Len(g_SnapCache) = 2
    /\ g_SnapCache[1].repoName = "r1" /\ g_SnapCache[2].repoName = "r1"

\* An array was released twice.
C38_WitnessDoubleFree == shadow.doubleFree /\ shadow.calls = 3

\* A released array was read.
C38_WitnessReadAfterRelease == shadow.readAfterRelease

-----------------------------------------------------------------------------
(* Spec: whose listing a request is answered with                            *)

\* The children the snapshot of the request holds in the directory asked for.
OwnChildren == ChildrenIn(resticTree[last.repo][last.shortId], last.path)

\* C39: a directory listing cached for one repository is never returned for
\* a request against another, the same short id and path notwithstanding:
\* the entries a request returns are entries of its own repository.
C39_OwnRepositoryOnly ==
    (IsListing /\ last.outCount > 0) => SeqToSet(last.entries) = OwnChildren

\* A request against a repository with no row of the directory in its
\* database was answered from memory with entries its snapshot does not hold.
C39_WitnessOtherRepository ==
    /\ IsListing
    /\ last.outCount > 0
    /\ last.pre.inMemory
    /\ ~last.pre.sentinel
    /\ SeqToSet(last.entries) # OwnChildren
    /\ \E r \in Repos \ {last.repo} :
          SeqToSet(last.entries) = ChildrenIn(resticTree[r][last.shortId], last.path)

-----------------------------------------------------------------------------
(* wfx_interface.c: ParsePathSegments                                        *)

MAX_PATH == 260

\* A faulty segment, for comparison: the whole remaining text is the segment.
SegmentAt_All(p) == [seg |-> p, rest |-> <<>>]

\* One "Segment" block (lines 206-214): the text up to the next \ or the
\* end, cut to MAX_PATH - 1 characters, and what follows it.
SegmentAt(p) ==
    LET end == strchr(p, CH_BACKSLASH)
        len == IF end = 0 THEN Len(p) ELSE end - 1
        kept == IF len >= MAX_PATH THEN MAX_PATH - 1 ELSE len
    IN  [seg |-> SubSeq(p, 1, kept), rest |-> SubSeq(p, len + 1, Len(p))]

\* if (*p == '\\') p++;
SkipSeparator(p) == IF p # <<>> /\ p[1] = CH_BACKSLASH THEN Tail(p) ELSE p

\* ParsePathSegments on a path that is not NULL: the value returned and the
\* four output buffers.
ParsePathSegments(path) ==
    LET out(n, a, b, c, r) == [segCount |-> n, seg1 |-> a, seg2 |-> b, seg3 |-> c, rest |-> r]
        s1 == SegmentAt(SkipSeparator(path))
        p1 == SkipSeparator(s1.rest)
        s2 == SegmentAt(p1)
        p2 == SkipSeparator(s2.rest)
        s3 == SegmentAt(p2)
        p3 == SkipSeparator(s3.rest)
        rest == IF Len(p3) > MAX_PATH - 1 THEN SubSeq(p3, 1, MAX_PATH - 1) ELSE p3
    IN  IF path = <<CH_BACKSLASH>> THEN out(0, <<>>, <<>>, <<>>, <<>>)
        ELSE IF p1 = <<>> THEN out(1, s1.seg, <<>>, <<>>, <<>>)
        ELSE IF p2 = <<>> THEN out(2, s1.seg, s2.seg, <<>>, <<>>)
        ELSE out(3, s1.seg, s2.seg, s3.seg, rest)

-----------------------------------------------------------------------------
(* SpecParse: ParsePathSegments on the paths the host passes: \ followed by  *)
(* up to five names joined by \, with or without a trailing \ (the host      *)
(* names the folder of a transfer with one).                                 *)

MaxComponents == 5
ParseNames == {<<CH_a>>, <<CH_b>>, <<CH_a, CH_b>>}

\* \c1\c2\...\cn, and \ alone for no component.
RECURSIVE JoinComponents(_)
JoinComponents(comps) ==
    IF comps = <<>> THEN <<>>
    ELSE <<CH_BACKSLASH>> \o Head(comps) \o JoinComponents(Tail(comps))

HostPath(comps, trailing) ==
    IF comps = <<>> THEN <<CH_BACKSLASH>>
    ELSE JoinComponents(comps) \o (IF trailing THEN <<CH_BACKSLASH>> ELSE <<>>)

\* shadow is the path the host is about to pass, by its components.
InitParse ==
    /\ IdleInit
    /\ resticSnaps = [r \in Repos |-> {}]
    /\ resticTree = [r \in Repos |-> <<>>]
    /\ shadow \in [comps : UNION {[1..n -> ParseNames] : n \in 0..MaxComponents},
                   trailing : BOOLEAN]
    /\ shadow.comps = <<>> => ~shadow.trailing
    /\ lastFetch = [r \in Repos |-> NeverFetched]

\* One call of ParsePathSegments on the path.
ParseCall ==
    /\ last.op = "none"
    /\ last' = [op |-> "Parse", n |-> 1, path |-> HostPath(shadow.comps, shadow.trailing),
                out |-> ParsePathSegments(HostPath(shadow.comps, shadow.trailing))]
    /\ UNCHANGED <<conc, batch, now, g_SnapCache, g_LsCache, g_Initialized, cached_dirs,
                   dir_entries, loadedSnaps, hasPassword, resticSnaps, resticTree, shadow,
                   lastFetch>>

NextParse == ParseCall

SpecParse == InitParse /\ [][NextParse]_vars

\* The k-th component of the path, empty when it has fewer.
Component(k) == IF k <= Len(shadow.comps) THEN shadow.comps[k] ELSE <<>>

\* The components after the third joined by \.
Remainder ==
    IF Len(shadow.comps) <= 3 THEN <<>>
    ELSE Tail(JoinComponents(SubSeq(shadow.comps, 4, Len(shadow.comps))))

\* \seg1\seg2\seg3\rest, as far as the count and the remainder go.
Rejoined(out) ==
    IF out.segCount = 0 THEN <<CH_BACKSLASH>>
    ELSE JoinComponents(SubSeq(<<out.seg1, out.seg2, out.seg3>>, 1, out.segCount))
         \o (IF out.rest # <<>> THEN <<CH_BACKSLASH>> \o out.rest ELSE <<>>)

\* C40: for a path of a leading \ and n >= 1 non-empty components
\* ParsePathSegments returns min(n, 3), the first three components as the
\* segments and the others joined by \ as the remainder, and the segments
\* and the remainder joined again are the path; for the root it returns 0
\* and leaves every output empty.
C40_SegmentsOfPath ==
    (last.op = "Parse" /\ ~shadow.trailing) =>
        LET n == Len(shadow.comps)
        IN  /\ last.out.segCount = (IF n < 3 THEN n ELSE 3)
            /\ last.out.seg1 = Component(1)
            /\ last.out.seg2 = Component(2)
            /\ last.out.seg3 = Component(3)
            /\ last.out.rest = Remainder
            /\ Rejoined(last.out) = last.path

\* C40 witness: a path of five components was parsed into three segments and
\* a remainder of two components.
C40_Witness ==
    /\ last.op = "Parse"
    /\ ~shadow.trailing
    /\ Len(shadow.comps) = 5
    /\ last.out.segCount = 3
    /\ last.out.rest = shadow.comps[4] \o <<CH_BACKSLASH>> \o shadow.comps[5]

\* The root was parsed: count 0, every output empty.
C40_WitnessRoot ==
    /\ last.op = "Parse"
    /\ last.path = <<CH_BACKSLASH>>
    /\ last.out = [segCount |-> 0, seg1 |-> <<>>, seg2 |-> <<>>, seg3 |-> <<>>, rest |-> <<>>]

====
